---- MODULE Spec2Model ----
(***************************************************************************)
(* Model of the render-target / texture-preparation pipeline of Libvidgfx  *)
(* (D3DContext and its GraphicsContext base class): the scratch target     *)
(* pool, the dirty-flag constant cache, prepareTexture() and               *)
(* convertToBgrx().                                                        *)
(*                                                                         *)
(* The D3DContext object is the record `ctx`; its fields carry the names   *)
(* of the C++ members.  Every C++ method is an operator from a context     *)
(* record to a context record, translated statement by statement, so that  *)
(* a method that calls another one is the composition of the two           *)
(* operators.  Fields prefixed dev_ are the state of the ID3D10Device the  *)
(* context drives; `trace` is the list of device/pool events of the        *)
(* operation in progress (it is cleared when an operation starts).         *)
(*                                                                         *)
(* Floating point values are modelled as exact rationals <<num, den>>.     *)
(***************************************************************************)
EXTENDS Integers, Sequences, FiniteSets, TLC

-----------------------------------------------------------------------------
(* Arithmetic helpers *)

Min(a, b) == IF a <= b THEN a ELSE b

qMax(a, b) == IF a < b THEN b ELSE a

Abs(a) == IF a < 0 THEN -a ELSE a

RECURSIVE GCD(_, _)
GCD(a, b) == IF b = 0 THEN a ELSE GCD(b, a % b)

\* A rational number n/d in lowest terms with a positive denominator.
Frac(n, d) ==
    LET g == GCD(Abs(n), Abs(d))
        s == IF d < 0 THEN -1 ELSE 1
    IN  <<(s * n) \div g, (s * d) \div g>>

FracMul(a, b) == Frac(a[1] * b[1], a[2] * b[2])

FracLeq(a, b) == a[1] * b[2] <= b[1] * a[2]

\* C `ceil()` of the rational n/d, d # 0.
CeilDiv(n, d) ==
    LET f == Frac(n, d) IN -((-f[1]) \div f[2])

RECURSIVE Pow2(_)
Pow2(k) == IF k = 0 THEN 1 ELSE 2 * Pow2(k - 1)

\* Bitwise OR of two naturals.
RECURSIVE BitOr(_, _)
BitOr(a, b) ==
    IF a = 0 THEN b
    ELSE IF b = 0 THEN a
    ELSE (IF a % 2 = 1 \/ b % 2 = 1 THEN 1 ELSE 0)
         + 2 * BitOr(a \div 2, b \div 2)

\* n |= n >> k
SmearRight(n, k) == BitOr(n, n \div Pow2(k))

\* Fault variant of nextPowTwo: the initial `n--` is missing, so a power of
\* two is rounded up to the next one.
nextPowTwo_NoDecrement(n) ==
    IF n = 0 THEN 0
    ELSE LET n1 == SmearRight(n, 1)
             n2 == SmearRight(n1, 2)
             n3 == SmearRight(n2, 4)
             n4 == SmearRight(n3, 8)
             n5 == SmearRight(n4, 16)
         IN  n5 + 1

\* GraphicsContext::nextPowTwo for 0 <= n <= 2^30.  The quint32 wrap-around
\* matters only for n = 0, where n-- gives 0xFFFFFFFF and n++ gives 0.
nextPowTwo(n) ==
    IF n = 0 THEN 0
    ELSE LET n0 == n - 1
             n1 == SmearRight(n0, 1)
             n2 == SmearRight(n1, 2)
             n3 == SmearRight(n2, 4)
             n4 == SmearRight(n3, 8)
             n5 == SmearRight(n4, 16)
         IN  n5 + 1

-----------------------------------------------------------------------------
(* Enumerations of libvidgfx.h *)

GfxScreenTarget == "GfxScreenTarget"
GfxCanvas1Target == "GfxCanvas1Target"
GfxCanvas2Target == "GfxCanvas2Target"
GfxScratch1Target == "GfxScratch1Target"
GfxScratch2Target == "GfxScratch2Target"
GfxUserTarget == "GfxUserTarget"

GfxRenderTarget ==
    {GfxScreenTarget, GfxCanvas1Target, GfxCanvas2Target,
     GfxScratch1Target, GfxScratch2Target, GfxUserTarget}

GfxShader ==
    {"GfxNoShader", "GfxSolidShader", "GfxTexDecalShader",
     "GfxTexDecalGbcsShader", "GfxTexDecalRgbShader", "GfxResizeLayerShader",
     "GfxRgbNv16Shader", "GfxYv12RgbShader", "GfxUyvyRgbShader",
     "GfxHdycRgbShader", "GfxYuy2RgbShader"}

GfxFilter == {"GfxPointFilter", "GfxBilinearFilter"}

GfxPixelFormat ==
    {"GfxNoFormat", "GfxRGB24Format", "GfxRGB32Format", "GfxARGB32Format",
     "GfxYV12Format", "GfxIYUVFormat", "GfxNV12Format", "GfxUYVYFormat",
     "GfxHDYCFormat", "GfxYUY2Format", "OutOfRangeFormat"}

\* Number of vertices createTexDecalRect() puts in a vertex buffer.
TexDecalRectNumVerts == 4

\* Size the scratch targets are first given by initialize().
InitialScratchDim == 512

-----------------------------------------------------------------------------
(* Textures *)

\* A NULL `Texture *`.
NullTex == [kind |-> "null", w |-> 0, h |-> 0, id |-> 0, swz |-> FALSE]

\* A texture owned by the application (id distinguishes the objects; swz is
\* D3DTexture::doBgraSwizzle()).
ExtTex(id, w, h, swz) ==
    [kind |-> "ext", w |-> w, h |-> h, id |-> id, swz |-> swz]

\* A live scratch texture; `slot` is 1 or 2.
ScratchTex(slot, size) ==
    [kind |-> "scratch", w |-> size[1], h |-> size[2], id |-> slot,
     swz |-> FALSE]

\* Texture::getSize()
getSize(tex) == <<tex.w, tex.h>>

\* QSize::isEmpty()
isEmpty(size) == size[1] <= 0 \/ size[2] <= 0

\* D3DContext::createTexture(size, writable, targetable) for a scratch slot:
\* `ok` is whether the device managed to create the texture and its views.
createTexture(slot, size, ok) ==
    IF isEmpty(size) THEN NullTex
    ELSE IF ok THEN ScratchTex(slot, size)
    ELSE NullTex

\* What a pointer to a scratch texture becomes once the texture is deleted.
Dangling(tex) ==
    IF tex.kind = "scratch" THEN [tex EXCEPT !.kind = "freed"] ELSE tex

-----------------------------------------------------------------------------
(* Constant values *)

\* QMatrix4x4(): the identity matrix.
IdentityMat == <<"identity">>

\* QMatrix4x4::ortho(0, w, h, 0, -1, 1) applied to the identity matrix.
OrthoMat(w, h) == <<"ortho", w, h>>

\* The zero-filled arrays the constructor leaves behind (memset).
ZeroLocal == <<0>>

\* No ID3D10Buffer has been created yet.
NullBuffer == <<>>

-----------------------------------------------------------------------------
(* The context object *)

VARIABLES
    ctx,        \* the D3DContext object and the device it drives
    pc,         \* "init" before initialize(), "ready" between calls,
                \* "prepare" inside the mipmap loop of prepareTexture()
    p,          \* the locals of the prepareTexture() call in progress
    resizeLog,  \* the last two resizeScratchTarget() calls
    nResize,    \* number of resizeScratchTarget() calls so far (saturating)
    nextLog,    \* the last two values returned by getNextScratchTarget()
    result,     \* what the last prepareTexture()/convertToBgrx() returned
    decal       \* a TexDecalVertBuf of the application

vars == <<ctx, pc, p, resizeLog, nResize, nextLog, result, decal>>

\* The view rendered to when the screen is the render target.
ScreenView == [kind |-> "screen", w |-> 0, h |-> 0, id |-> 0, swz |-> FALSE]

\* A vertex buffer: number of vertices, rectangle and bottom-right UV.
EmptyBuf == [numVerts |-> 0, rect |-> <<0, 0>>, brUv |-> <<Frac(1, 1), Frac(1, 1)>>]

\* D3DContext::isValid(): the device and swap chain exist from initialize()
\* to the destructor; the operations are modelled for that span (before it
\* the methods of D3DContext return at once).
isValid(c) == TRUE

\* Log an event of the operation in progress.
Emit(c, ev) == [c EXCEPT !.trace = Append(@, ev)]

\* The view and projection matrices of the current render target
\* (the switch of updateCameraConstants / getViewMatrix / getProjectionMatrix).
TargetGroup(target) ==
    CASE target \in {GfxCanvas1Target, GfxCanvas2Target} -> "canvas"
      [] target \in {GfxScratch1Target, GfxScratch2Target} -> "scratch"
      [] target = GfxUserTarget -> "user"
      [] OTHER -> "screen"

getViewMatrix(c) ==
    CASE TargetGroup(c.m_currentTarget) = "canvas" -> c.m_canvasViewMat
      [] TargetGroup(c.m_currentTarget) = "scratch" -> c.m_scratchViewMat
      [] TargetGroup(c.m_currentTarget) = "user" -> c.m_userViewMat
      [] OTHER -> c.m_screenViewMat

getProjectionMatrix(c) ==
    CASE TargetGroup(c.m_currentTarget) = "canvas" -> c.m_canvasProjMat
      [] TargetGroup(c.m_currentTarget) = "scratch" -> c.m_scratchProjMat
      [] TargetGroup(c.m_currentTarget) = "user" -> c.m_userProjMat
      [] OTHER -> c.m_screenProjMat

-----------------------------------------------------------------------------
(* ConstantStateCache: the four update*Constants() methods.  `ok` is the    *)
(* outcome of updateDXBuffer() (ID3D10Buffer::Map can fail).               *)

updateCameraConstants(c, ok) ==
    IF ~c.m_cameraConstantsDirty THEN c
    ELSE LET loc == <<getViewMatrix(c), getProjectionMatrix(c)>>
             c1 == [c EXCEPT !.m_cameraConstantsLocal = loc]
             c2 == IF c1.m_cameraConstants # NullBuffer
                   THEN Emit([c1 EXCEPT !.m_cameraConstants = loc],
                             <<"upload", "camera">>)
                   ELSE c1
         IN  IF c1.m_cameraConstants # NullBuffer /\ ~ok
             THEN c1   \* "Update failed"
             ELSE Emit([c2 EXCEPT !.m_cameraConstantsDirty = FALSE],
                       <<"clear", "camera">>)

updateResizeConstants(c, ok) ==
    IF ~c.m_resizeConstantsDirty THEN c
    ELSE LET loc == c.m_resizeRect
             c1 == [c EXCEPT !.m_resizeConstantsLocal = loc]
             c2 == IF c1.m_resizeConstants # NullBuffer
                   THEN Emit([c1 EXCEPT !.m_resizeConstants = loc],
                             <<"upload", "resize">>)
                   ELSE c1
         IN  IF c1.m_resizeConstants # NullBuffer /\ ~ok
             THEN c1   \* "Update failed"
             ELSE Emit([c2 EXCEPT !.m_resizeConstantsDirty = FALSE],
                       <<"clear", "resize">>)

\* The four horizontal offsets -1.5, -0.5, 0.5 and 1.5 times the pixel width.
RgbNv16Offsets(pxSize) ==
    <<FracMul(Frac(-3, 2), pxSize[1]), FracMul(Frac(-1, 2), pxSize[1]),
      FracMul(Frac(1, 2), pxSize[1]), FracMul(Frac(3, 2), pxSize[1])>>

updateRgbNv16Constants(c, ok) ==
    IF ~c.m_rgbNv16ConstantsDirty THEN c
    ELSE LET loc == RgbNv16Offsets(c.m_rgbNv16PxSize)
             c1 == [c EXCEPT !.m_rgbNv16ConstantsLocal = loc]
             c2 == IF c1.m_rgbNv16Constants # NullBuffer
                   THEN Emit([c1 EXCEPT !.m_rgbNv16Constants = loc],
                             <<"upload", "rgbNv16">>)
                   ELSE c1
         IN  IF c1.m_rgbNv16Constants # NullBuffer /\ ~ok
             THEN c1   \* "Update failed"
             ELSE Emit([c2 EXCEPT !.m_rgbNv16ConstantsDirty = FALSE],
                       <<"clear", "rgbNv16">>)

updateTexDecalConstants(c, ok) ==
    IF ~c.m_texDecalConstantsDirty THEN c
    ELSE LET loc == <<c.m_texDecalModulate, c.m_texDecalFlags,
                      c.m_texDecalEffects>>
             c1 == [c EXCEPT !.m_texDecalConstantsLocal = loc]
             c2 == IF c1.m_texDecalConstants # NullBuffer
                   THEN Emit([c1 EXCEPT !.m_texDecalConstants = loc],
                             <<"upload", "texDecal">>)
                   ELSE c1
         IN  IF c1.m_texDecalConstants # NullBuffer /\ ~ok
             THEN c1   \* "Update failed"
             ELSE Emit([c2 EXCEPT !.m_texDecalConstantsDirty = FALSE],
                       <<"clear", "texDecal">>)

\* D3DContext::setSwizzleInTexDecal
setSwizzleInTexDecal(c, doSwizzle) ==
    LET flag == IF doSwizzle THEN 1 ELSE 0
    IN  [c EXCEPT !.m_texDecalConstantsDirty =
                      IF c.m_texDecalFlags # flag THEN TRUE ELSE @,
                  !.m_texDecalFlags = flag]

-----------------------------------------------------------------------------
(* ScratchTargetPool *)

\* Fault variant of resizeScratchTarget: the early return compares with `<`
\* instead of `<=`, so a request equal to the capacity reallocates.
resizeScratchTarget_StrictLess(c, newSize, ok1, ok2) ==
    LET oldSize == IF c.m_scratch1Texture # NullTex
                   THEN getSize(c.m_scratch1Texture) ELSE <<0, 0>>
        c1 == [c EXCEPT !.m_scratchTargetSize = newSize]
    IN  IF newSize[1] < oldSize[1] /\ newSize[2] < oldSize[2]
        THEN Emit(c1, <<"resize", newSize, oldSize, oldSize, FALSE>>)
        ELSE LET size == <<nextPowTwo(newSize[1]), nextPowTwo(newSize[2])>>
                 t1 == createTexture(1, size, ok1)
                 t2 == createTexture(2, size, ok2)
             IN  Emit([c1 EXCEPT !.m_scratch1Texture = t1,
                                 !.m_scratch2Texture = t2,
                                 !.dev_textures =
                                     [i \in 1..3 |-> Dangling(@[i])],
                                 !.dev_renderTarget = Dangling(@)],
                      <<"resize", newSize, oldSize, getSize(t1), TRUE>>)

\* Fault variant of resizeScratchTarget: a reallocation marks the constants
\* of the conversion shaders dirty.
resizeScratchTarget_MarksOffsets(c, newSize, ok1, ok2) ==
    LET oldSize == IF c.m_scratch1Texture # NullTex
                   THEN getSize(c.m_scratch1Texture) ELSE <<0, 0>>
        c1 == [c EXCEPT !.m_scratchTargetSize = newSize]
    IN  IF newSize[1] <= oldSize[1] /\ newSize[2] <= oldSize[2]
        THEN Emit(c1, <<"resize", newSize, oldSize, oldSize, FALSE>>)
        ELSE LET size == <<nextPowTwo(newSize[1]), nextPowTwo(newSize[2])>>
                 t1 == createTexture(1, size, ok1)
                 t2 == createTexture(2, size, ok2)
             IN  Emit([c1 EXCEPT !.m_scratch1Texture = t1,
                                 !.m_scratch2Texture = t2,
                                 !.m_rgbNv16ConstantsDirty = TRUE,
                                 !.dev_textures =
                                     [i \in 1..3 |-> Dangling(@[i])],
                                 !.dev_renderTarget = Dangling(@)],
                      <<"resize", newSize, oldSize, getSize(t1), TRUE>>)

\* D3DContext::resizeScratchTarget.  ok1 and ok2 are the outcomes of the two
\* createTexture() calls.  The "resize" event records the request and the
\* size of the first scratch texture before and after the call.
resizeScratchTarget(c, newSize, ok1, ok2) ==
    IF ~isValid(c) THEN c
    ELSE
    LET oldSize == IF c.m_scratch1Texture # NullTex
                   THEN getSize(c.m_scratch1Texture) ELSE <<0, 0>>
        c1 == [c EXCEPT !.m_scratchTargetSize = newSize]
    IN  IF newSize[1] <= oldSize[1] /\ newSize[2] <= oldSize[2]
        THEN Emit(c1, <<"resize", newSize, oldSize, oldSize, FALSE>>)
        ELSE LET size == <<nextPowTwo(newSize[1]), nextPowTwo(newSize[2])>>
                 t1 == createTexture(1, size, ok1)
                 t2 == createTexture(2, size, ok2)
             IN  Emit([c1 EXCEPT !.m_scratch1Texture = t1,
                                 !.m_scratch2Texture = t2,
                                 !.dev_textures =
                                     [i \in 1..3 |-> Dangling(@[i])],
                                 !.dev_renderTarget = Dangling(@)],
                      <<"resize", newSize, oldSize, getSize(t1), TRUE>>)

\* D3DContext::getTargetTexture
getTargetTexture(c, target) ==
    CASE target = GfxCanvas1Target -> c.m_canvas1Texture
      [] target = GfxCanvas2Target -> c.m_canvas2Texture
      [] target = GfxScratch1Target -> c.m_scratch1Texture
      [] target = GfxScratch2Target -> c.m_scratch2Texture
      [] target = GfxUserTarget -> c.m_userTargets[1]
      [] OTHER -> NullTex

\* D3DContext::getNextScratchTarget: the value returned ...
getNextScratchTarget_ret(c) ==
    IF c.m_scratchNextTarget = 1 THEN GfxScratch2Target
    ELSE GfxScratch1Target

\* Fault variant of getNextScratchTarget: the selector is not flipped.
getNextScratchTarget_NoFlip(c) ==
    Emit(c, <<"getNext", getNextScratchTarget_ret(c)>>)

\* ... and the context it leaves (m_scratchNextTarget ^= 1).
getNextScratchTarget(c) ==
    Emit([c EXCEPT !.m_scratchNextTarget = (@ + 1) % 2],
         <<"getNext", getNextScratchTarget_ret(c)>>)

\* Fault variant of getScratchTargetToTextureRatio: the height of the target
\* is divided by the width of the texture.
getScratchTargetToTextureRatio_WidthTwice(c) ==
    LET texSize == IF c.m_scratch1Texture # NullTex
                   THEN getSize(c.m_scratch1Texture)
                   ELSE c.m_scratchTargetSize
    IN  <<Frac(c.m_scratchTargetSize[1], texSize[1]),
          Frac(c.m_scratchTargetSize[2], texSize[1])>>

\* D3DContext::getScratchTargetToTextureRatio
getScratchTargetToTextureRatio(c) ==
    LET texSize == IF c.m_scratch1Texture # NullTex
                   THEN getSize(c.m_scratch1Texture)
                   ELSE c.m_scratchTargetSize
    IN  <<Frac(c.m_scratchTargetSize[1], texSize[1]),
          Frac(c.m_scratchTargetSize[2], texSize[2])>>

-----------------------------------------------------------------------------
(* Drawing *)

\* ID3D10RenderTargetView of a texture that can be a render target; NullTex
\* when the texture or its view does not exist.
getTargetView(tex) ==
    IF tex # NullTex /\ tex.kind # "noview" THEN tex ELSE NullTex

\* D3DContext::setRenderTarget
setRenderTarget(c, target) ==
    IF ~isValid(c) THEN c
    ELSE
    LET tgt == IF target \in GfxRenderTarget THEN target ELSE GfxScreenTarget
        c1 == [c EXCEPT !.m_currentTarget = tgt]
        targetView ==
            CASE tgt = GfxScreenTarget -> ScreenView
              [] tgt = GfxCanvas1Target -> getTargetView(c.m_canvas1Texture)
              [] tgt = GfxCanvas2Target -> getTargetView(c.m_canvas2Texture)
              [] tgt = GfxScratch1Target -> getTargetView(c.m_scratch1Texture)
              [] tgt = GfxScratch2Target -> getTargetView(c.m_scratch2Texture)
              [] tgt = GfxUserTarget -> getTargetView(c.m_userTargets[1])
    IN  IF targetView = NullTex
        THEN c1   \* "Attempted to select a render target that doesn't exist"
        ELSE [c1 EXCEPT !.dev_renderTarget = targetView,
                        !.m_cameraConstantsDirty = TRUE]

\* D3DContext::setShader
setShader(c, shader) ==
    IF ~isValid(c) THEN c
    ELSE IF c.m_boundShader = shader THEN c
    ELSE [c EXCEPT !.m_boundShader = shader]

\* D3DContext::setTexture
setTexture(c, texA, texB, texC) ==
    IF ~isValid(c) THEN c
    ELSE IF texA = NullTex THEN c
    ELSE LET num == IF texC # NullTex THEN 3
                    ELSE IF texB # NullTex THEN 2 ELSE 1
             view == <<texA, texB, texC>>
             c1 == [c EXCEPT !.dev_textures =
                        [i \in 1..3 |-> IF i <= num THEN view[i] ELSE @[i]]]
         IN  setSwizzleInTexDecal(c1, texA.swz)

\* GraphicsContext::createTexDecalRect(outBuf, rect, brUv) on m_mipmapBuf
createTexDecalRect(c, rect, brUv) ==
    [c EXCEPT !.m_mipmapBuf = [numVerts |-> TexDecalRectNumVerts,
                               rect |-> rect, brUv |-> brUv]]

\* The constant group the pixel shader `shader` reads in drawBuffer().
ShaderGroup(shader) ==
    CASE shader = "GfxResizeLayerShader" -> "resize"
      [] shader = "GfxRgbNv16Shader" -> "rgbNv16"
      [] shader \in {"GfxTexDecalShader", "GfxTexDecalGbcsShader",
                     "GfxTexDecalRgbShader"} -> "texDecal"
      [] OTHER -> "none"

\* drawBuffer(): the update of the constant group the bound pixel shader
\* reads (the switch on m_boundShader).
updateShaderConstants(c, okPs) ==
    CASE ShaderGroup(c.m_boundShader) = "resize" ->
            updateResizeConstants(c, okPs)
      [] ShaderGroup(c.m_boundShader) = "rgbNv16" ->
            updateRgbNv16Constants(c, okPs)
      [] ShaderGroup(c.m_boundShader) = "texDecal" ->
            updateTexDecalConstants(c, okPs)
      [] OTHER -> c

\* drawBuffer(): m_device->Draw(n, 0) with the state bound at that moment,
\* the current render target and its view and projection matrices.
Draw(c, n) ==
    Emit(c, <<"draw", [numVerts |-> n,
                       shader |-> c.m_boundShader,
                       target |-> c.dev_renderTarget,
                       textures |-> c.dev_textures,
                       camera |-> c.m_cameraConstants,
                       current |-> c.m_currentTarget,
                       matrices |-> <<getViewMatrix(c),
                                      getProjectionMatrix(c)>>]>>)

\* D3DContext::drawBuffer(buf, numVertices).  okCam and okPs are the outcomes
\* of the two updateDXBuffer() calls the draw can make.
drawBuffer(c, buf, numVertices, okCam, okPs) ==
    IF ~isValid(c) THEN c
    ELSE
    LET n == IF numVertices < 0 THEN buf.numVerts ELSE numVertices
    IN  IF n = 0 THEN c
        ELSE Draw(updateShaderConstants(updateCameraConstants(c, okCam),
                                        okPs), n)

-----------------------------------------------------------------------------
(* GraphicsContext setters *)

\* GraphicsContext::setViewMatrix
setViewMatrix(c, matrix) ==
    CASE TargetGroup(c.m_currentTarget) = "canvas" ->
            [c EXCEPT !.m_cameraConstantsDirty =
                          IF c.m_canvasViewMat # matrix THEN TRUE ELSE @,
                      !.m_canvasViewMat = matrix]
      [] TargetGroup(c.m_currentTarget) = "scratch" ->
            [c EXCEPT !.m_cameraConstantsDirty =
                          IF c.m_scratchViewMat # matrix THEN TRUE ELSE @,
                      !.m_scratchViewMat = matrix]
      [] TargetGroup(c.m_currentTarget) = "user" ->
            [c EXCEPT !.m_cameraConstantsDirty =
                          IF c.m_userViewMat # matrix THEN TRUE ELSE @,
                      !.m_userViewMat = matrix]
      [] OTHER ->
            [c EXCEPT !.m_cameraConstantsDirty =
                          IF c.m_screenViewMat # matrix THEN TRUE ELSE @,
                      !.m_screenViewMat = matrix]

\* GraphicsContext::setProjectionMatrix
setProjectionMatrix(c, matrix) ==
    CASE TargetGroup(c.m_currentTarget) = "canvas" ->
            [c EXCEPT !.m_cameraConstantsDirty =
                          IF c.m_canvasProjMat # matrix THEN TRUE ELSE @,
                      !.m_canvasProjMat = matrix]
      [] TargetGroup(c.m_currentTarget) = "scratch" ->
            [c EXCEPT !.m_cameraConstantsDirty =
                          IF c.m_scratchProjMat # matrix THEN TRUE ELSE @,
                      !.m_scratchProjMat = matrix]
      [] TargetGroup(c.m_currentTarget) = "user" ->
            [c EXCEPT !.m_cameraConstantsDirty =
                          IF c.m_userProjMat # matrix THEN TRUE ELSE @,
                      !.m_userProjMat = matrix]
      [] OTHER ->
            [c EXCEPT !.m_cameraConstantsDirty =
                          IF c.m_screenProjMat # matrix THEN TRUE ELSE @,
                      !.m_screenProjMat = matrix]

\* Fault variant of setScreenViewMatrix: the test of the current render
\* target is missing.
setScreenViewMatrix_AlwaysMarks(c, matrix) ==
    [c EXCEPT !.m_cameraConstantsDirty =
                  IF c.m_screenViewMat # matrix THEN TRUE ELSE @,
              !.m_screenViewMat = matrix]

\* GraphicsContext::setScreenViewMatrix
setScreenViewMatrix(c, matrix) ==
    [c EXCEPT !.m_cameraConstantsDirty =
                  IF c.m_currentTarget = GfxScreenTarget
                     /\ c.m_screenViewMat # matrix THEN TRUE ELSE @,
              !.m_screenViewMat = matrix]

\* GraphicsContext::setScreenProjectionMatrix
setScreenProjectionMatrix(c, matrix) ==
    [c EXCEPT !.m_cameraConstantsDirty =
                  IF c.m_currentTarget = GfxScreenTarget
                     /\ c.m_screenProjMat # matrix THEN TRUE ELSE @,
              !.m_screenProjMat = matrix]

\* Fault variant of setResizeLayerRect: the new rectangle is uploaded at once
\* instead of at the next draw.
setResizeLayerRect_Eager(c, rect) ==
    updateResizeConstants(
        [c EXCEPT !.m_resizeConstantsDirty =
                      IF c.m_resizeRect # rect THEN TRUE ELSE @,
                  !.m_resizeRect = rect], TRUE)

\* GraphicsContext::setResizeLayerRect
setResizeLayerRect(c, rect) ==
    [c EXCEPT !.m_resizeConstantsDirty =
                  IF c.m_resizeRect # rect THEN TRUE ELSE @,
              !.m_resizeRect = rect]

\* GraphicsContext::setRgbNv16PxSize
setRgbNv16PxSize(c, size) ==
    [c EXCEPT !.m_rgbNv16ConstantsDirty =
                  IF c.m_rgbNv16PxSize # size THEN TRUE ELSE @,
              !.m_rgbNv16PxSize = size]

\* GraphicsContext::setTexDecalModColor
setTexDecalModColor(c, color) ==
    [c EXCEPT !.m_texDecalConstantsDirty =
                  IF c.m_texDecalModulate # color THEN TRUE ELSE @,
              !.m_texDecalModulate = color]

\* Fault variant of StoredGamma: arguments <= 0 are not replaced.
StoredGamma_NoClamp(gamma) == Frac(gamma[2], gamma[1])

\* The gamma setTexDecalEffects() stores: the reciprocal of the argument,
\* after arguments <= 0 are replaced by 0.01.
StoredGamma(gamma) ==
    LET g == IF FracLeq(gamma, Frac(0, 1)) THEN Frac(1, 100) ELSE gamma
    IN  Frac(g[2], g[1])

\* GraphicsContext::setTexDecalEffects
setTexDecalEffects(c, gamma, brightness, contrast, saturation) ==
    LET eff == <<StoredGamma(gamma), brightness, contrast, saturation>>
    IN  [c EXCEPT !.m_texDecalConstantsDirty =
                      IF c.m_texDecalEffects # eff THEN TRUE ELSE @,
                  !.m_texDecalEffects = eff]

\* GraphicsContext::getTexDecalEffects
getTexDecalEffects(c) == c.m_texDecalEffects

\* GraphicsContext::setUserRenderTarget (targetable textures only)
setUserRenderTarget(c, texA, texB) ==
    LET c1 == [c EXCEPT !.m_userTargets = <<texA, texB>>]
    IN  IF c1.m_currentTarget = GfxUserTarget
        THEN setRenderTarget(c1, GfxUserTarget) ELSE c1

\* A canvas texture as the D3DTexture constructor leaves it: r is "ok", or
\* "noview" when the render target view could not be created, or "notex"
\* when the texture itself could not be created (then it has no view either).
CanvasTex(slot, size, r) ==
    [kind |-> IF r = "ok" THEN "canvas" ELSE "noview",
     w |-> size[1], h |-> size[2], id |-> slot, swz |-> FALSE]

\* D3DContext::resizeCanvasTarget
resizeCanvasTarget(c, newSize, r1, r2) ==
    IF ~isValid(c) THEN c
    ELSE IF c.m_canvasTargetSize = newSize THEN c
    ELSE LET c1 == [c EXCEPT
                      !.dev_renderTarget =
                          IF c.m_currentTarget \in
                                {GfxCanvas1Target, GfxCanvas2Target}
                          THEN NullTex ELSE @,
                      !.m_canvas1Texture = CanvasTex(1, newSize, r1),
                      !.m_canvas2Texture = CanvasTex(2, newSize, r2),
                      !.m_canvasTargetSize =
                          IF r1 # "notex" /\ r2 # "notex"
                          THEN newSize ELSE @]
         IN  IF c1.m_currentTarget \in {GfxCanvas1Target, GfxCanvas2Target}
             THEN setRenderTarget(c1, c1.m_currentTarget) ELSE c1

-----------------------------------------------------------------------------
(* ColorSpaceConverter *)

\* The offsets convertToBgrx() writes for the three-plane formats:
\* outTexWidth * 4, * 0.125, * 8, * 0.0625 with outTexWidth = 1 / width.
Yv12Offsets(width) ==
    <<Frac(4, width), Frac(1, 8 * width), Frac(8, width),
      Frac(1, 16 * width)>>

\* Fault variant of PackedOffsets: the offsets of twice the width.
PackedOffsets_TwiceWidth(width) ==
    <<Frac(1, width), Frac(1, 2 * width), Frac(0, 1), Frac(0, 1)>>

\* ... and for the packed formats: outTexWidth * 2, outTexWidth, 0, 0.
PackedOffsets(width) ==
    <<Frac(2, width), Frac(1, width), Frac(0, 1), Frac(0, 1)>>

\* The part of convertToBgrx() the two families share: render planeA..C with
\* `shader` into the next scratch target resized to outSize.  env holds the
\* outcomes of the device calls: ok1, ok2 (createTexture), okUpload (the
\* updateDXBuffer of the offsets), okCam (the one made by drawBuffer).
\* The statements are applied in the order of the code: Select is "Setup
\* render target" after the resize, Upload is "HACK: Reuse RgbNv16 shader
\* cbuffer", Render is "Render the mipmap" up to the return.
ConvertRender(c, outSize, offsets, shader, planeA, planeB, planeC, env) ==
    LET origTarget == c.m_currentTarget
        Result(c12, target) ==
            [c |-> c12, ret |-> getTargetTexture(c12, target)]
        DrawMipmapBuf(c10) ==
            drawBuffer(c10, c10.m_mipmapBuf, -1, env.okCam, TRUE)
        Render(c8, target) ==
            Result(setRenderTarget(
                       DrawMipmapBuf(
                           setTexture(setShader(c8, shader),
                                      planeA, planeB, planeC)),
                       origTarget),
                   target)
        Upload(c6, target) ==
            IF c6.m_rgbNv16Constants = NullBuffer \/ ~env.okUpload
            THEN [c |-> setRenderTarget(
                            [c6 EXCEPT !.m_rgbNv16ConstantsLocal = offsets],
                            origTarget),
                  ret |-> NullTex]
            ELSE Render(Emit([c6 EXCEPT !.m_rgbNv16ConstantsLocal = offsets,
                                        !.m_rgbNv16Constants = offsets,
                                        !.m_rgbNv16ConstantsDirty = TRUE],
                             <<"upload", "rgbNv16">>),
                        target)
        Select(c2) ==
            Upload(setProjectionMatrix(
                       setViewMatrix(
                           setRenderTarget(getNextScratchTarget(c2),
                                           getNextScratchTarget_ret(c2)),
                           IdentityMat),
                       OrthoMat(outSize[1], outSize[2])),
                   getNextScratchTarget_ret(c2))
    IN  Select(resizeScratchTarget(
                   createTexDecalRect(c, outSize, <<Frac(1, 1), Frac(1, 1)>>),
                   outSize, env.ok1, env.ok2))

\* Fault variant of ThreePlaneFormats: NV12 is converted like YV12.
ThreePlaneFormats_WithNv12 ==
    {"GfxYV12Format", "GfxIYUVFormat", "GfxNV12Format"}

\* The case labels of the three-plane branch of convertToBgrx().
ThreePlaneFormats == {"GfxYV12Format", "GfxIYUVFormat"}

\* Fault variant of ChromaFits: the heights of the chroma planes are not
\* tested.
ChromaFits_WidthOnly(planeA, planeB, planeC) ==
    /\ planeB.w = planeA.w \div 2
    /\ planeC.w = planeA.w \div 2

\* The size test of the three-plane branch: both chroma planes have half
\* the width and half the height of the luma plane (integer division).
ChromaFits(planeA, planeB, planeC) ==
    /\ planeB.w = planeA.w \div 2
    /\ planeB.h = planeA.h \div 2
    /\ planeC.w = planeA.w \div 2
    /\ planeC.h = planeA.h \div 2

\* Fault variant of ReorderPlanes: the planes of IYUV are not swapped.
ReorderPlanes_NoSwap(format, planeB, planeC) == <<planeB, planeC>>

\* "Reorder to YV12 always": the second and third plane as the shader gets
\* them.
ReorderPlanes(format, planeB, planeC) ==
    IF format = "GfxIYUVFormat" THEN <<planeC, planeB>>
    ELSE <<planeB, planeC>>

\* D3DContext::convertToBgrx
convertToBgrx(c, format, planeA, planeB, planeC, env) ==
    CASE format \in {"OutOfRangeFormat", "GfxNoFormat", "GfxRGB24Format",
                     "GfxRGB32Format", "GfxARGB32Format"} ->
            [c |-> c, ret |-> NullTex]
      [] format \in ThreePlaneFormats ->
            IF planeA = NullTex \/ planeB = NullTex \/ planeC = NullTex
            THEN [c |-> c, ret |-> NullTex]
            ELSE IF ~ChromaFits(planeA, planeB, planeC)
            THEN [c |-> c, ret |-> NullTex]
            ELSE LET planes == ReorderPlanes(format, planeB, planeC)
                     outSize == <<planeA.w * 4, planeA.h>>
                 IN  ConvertRender(c, outSize, Yv12Offsets(outSize[1]),
                                   "GfxYv12RgbShader", planeA, planes[1],
                                   planes[2], env)
      [] format = "GfxNV12Format" -> [c |-> c, ret |-> NullTex]
      [] format \in {"GfxUYVYFormat", "GfxHDYCFormat", "GfxYUY2Format"} ->
            IF planeA = NullTex THEN [c |-> c, ret |-> NullTex]
            ELSE LET outSize == <<planeA.w * 2, planeA.h>>
                     shader == CASE format = "GfxUYVYFormat" ->
                                        "GfxUyvyRgbShader"
                                 [] format = "GfxHDYCFormat" ->
                                        "GfxHdycRgbShader"
                                 [] OTHER -> "GfxYuy2RgbShader"
                 IN  ConvertRender(c, outSize, PackedOffsets(outSize[1]),
                                   shader, planeA, NullTex, NullTex, env)
      [] OTHER -> [c |-> c, ret |-> NullTex]

-----------------------------------------------------------------------------
(* TexturePreparer *)

\* A QRect is <<left, top, width, height>>.
FullRect(tex) == <<0, 0, tex.w, tex.h>>

\* Values an out-of-range double-to-int conversion can produce.
UndefinedInts == {-1024, 0, 1024}

\* Is n a power of two?
RECURSIVE IsPow2(_)
IsPow2(n) == n = 1 \/ (n > 1 /\ n % 2 = 0 /\ IsPow2(n \div 2))

\* One axis of invCropSize: ceil(size / (crop / tex)), computed in doubles.
\* A crop of width 0 divides by zero and converts an infinity to int, which
\* is undefined.  When crop / tex is a binary fraction the arithmetic is
\* exact.  Otherwise crop / tex is rounded, and where the exact quotient is
\* an integer n the double quotient can come out one ulp above it, so that
\* ceil() yields n + 1 (15 for 11 / (11.0 / 15.0) becomes 16).
InvCropChoices(size, crop, tex) ==
    IF crop = 0 THEN UndefinedInts
    ELSE LET n == CeilDiv(size * tex, crop)
         IN  IF Frac(size * tex, crop)[2] = 1 /\ ~IsPow2(Frac(crop, tex)[2])
             THEN {n, n + 1}
             ELSE {n}

\* The locals of prepareTexture() when no call is in progress.
IdleP ==
    [tex |-> NullTex, cropRect |-> <<0, 0, 0, 0>>, size |-> <<0, 0>>,
     filter |-> "GfxPointFilter", relTexSize |-> <<Frac(1, 1), Frac(1, 1)>>,
     outTex |-> NullTex, origTarget |-> GfxScreenTarget,
     invCropSize |-> <<0, 0>>, nextSize |-> <<0, 0>>, passes |-> 0]

\* Fault variant of PrepareDegenerate: the target size is not tested.
PrepareDegenerate_NullOnly(tex, size) == ~isValid(ctx) \/ tex = NullTex

\* The test at the head of prepareTexture().
PrepareDegenerate(tex, size) ==
    ~isValid(ctx) \/ tex = NullTex \/ size[1] <= 0 \/ size[2] <= 0

\* What prepareTexture() returns for invalid input.
DegenerateResult(tex) ==
    [tex |-> tex, topLeft |-> <<Frac(0, 1), Frac(0, 1)>>,
     botRight |-> <<Frac(1, 1), Frac(1, 1)>>,
     pxSize |-> <<Frac(1, 1), Frac(1, 1)>>]

\* The locals after the setup part of prepareTexture(), up to the switch.
PrepareSetup(c, tex, cropRect, size, filter, icw, ich) ==
    [tex |-> tex, cropRect |-> cropRect, size |-> size, filter |-> filter,
     relTexSize |-> <<Frac(1, 1), Frac(1, 1)>>, outTex |-> tex,
     origTarget |-> c.m_currentTarget, invCropSize |-> <<icw, ich>>,
     nextSize |-> getSize(tex), passes |-> 0]

\* Fault variant of MipmapsDone: point filtering enters the loop as well.
MipmapsDone_AnyFilter(q) ==
    /\ q.nextSize[1] <= q.invCropSize[1] * 2
    /\ q.nextSize[2] <= q.invCropSize[2] * 2

\* Fault variant of MipmapsDone: the loop stops at four times invCropSize.
MipmapsDone_FourTimes(q) ==
    \/ q.filter = "GfxPointFilter"
    \/ /\ q.nextSize[1] <= q.invCropSize[1] * 4
       /\ q.nextSize[2] <= q.invCropSize[2] * 4

\* The exit test of the mipmap loop (always true for point filtering, which
\* does not enter the loop).
MipmapsDone(q) ==
    \/ q.filter = "GfxPointFilter"
    \/ /\ q.nextSize[1] <= q.invCropSize[1] * 2
       /\ q.nextSize[2] <= q.invCropSize[2] * 2

\* Fault variant of NextMipmapSize: the halved size is not raised to
\* invCropSize.
NextMipmapSize_NoClamp(q) ==
    <<(q.nextSize[1] + 1) \div 2, (q.nextSize[2] + 1) \div 2>>

\* The size of the next mipmap.
NextMipmapSize(q) ==
    <<qMax((q.nextSize[1] + 1) \div 2, q.invCropSize[1]),
      qMax((q.nextSize[2] + 1) \div 2, q.invCropSize[2])>>

\* One iteration of the mipmap loop: the context it leaves ...
\* Select is "Setup render target" after the resize, Source the texture
\* that setTexture(outTex) binds, Render is "Render the mipmap".
MipmapPass(c, q, env) ==
    LET nextSize == NextMipmapSize(q)
        \* the resize may have deleted the texture outTex points to; what
        \* doBgraSwizzle() reads from a deleted texture is undefined
        Source(c2) ==
            IF \/ c2.trace[Len(c2.trace)][5] /\ q.outTex.kind = "scratch"
               \/ q.outTex.kind = "freed"
            THEN [Dangling(q.outTex) EXCEPT !.swz = env.garbage]
            ELSE q.outTex
        DrawMipmapBuf(c8) ==
            drawBuffer(c8, c8.m_mipmapBuf, -1, env.okCam, env.okPs)
        Render(c6, outTex) ==
            DrawMipmapBuf(setTexture(setShader(c6, "GfxTexDecalShader"),
                                     outTex, NullTex, NullTex))
        Select(c2) ==
            Render(setProjectionMatrix(
                       setViewMatrix(
                           setRenderTarget(getNextScratchTarget(c2),
                                           getNextScratchTarget_ret(c2)),
                           IdentityMat),
                       OrthoMat(nextSize[1], nextSize[2])),
                   Source(c2))
    IN  Select(resizeScratchTarget(
                   createTexDecalRect(c, nextSize, q.relTexSize),
                   nextSize, env.ok1, env.ok2))

\* ... and the locals it leaves ("Update references").
MipmapPassLocals(c, q, c9, maxPasses) ==
    LET target == getNextScratchTarget_ret(c)
    IN  [q EXCEPT !.nextSize = NextMipmapSize(q),
                  !.outTex = getTargetTexture(c9, target),
                  !.relTexSize = getScratchTargetToTextureRatio(c9),
                  !.passes = Min(@ + 1, maxPasses)]

\* a - b, a / n and a * n for fractions a, b and an integer n; common
\* factors are cancelled before multiplying.
FracSub(a, b) ==
    LET g == GCD(a[2], b[2])
    IN  Frac(a[1] * (b[2] \div g) - b[1] * (a[2] \div g),
             a[2] * (b[2] \div g))

FracDivInt(a, n) ==
    LET g == GCD(Abs(a[1]), Abs(n))
    IN  IF g = 0 THEN Frac(a[1], a[2] * n)
        ELSE Frac(a[1] \div g, a[2] * (n \div g))

FracMulInt(a, n) ==
    LET g == GCD(a[2], Abs(n))
    IN  Frac(a[1] * (n \div g), a[2] \div g)

\* Fault variant of PrepareResult: the bottom-right point of a crop is taken
\* from the size of the crop rectangle alone, without its offset.
PrepareResult_NoOffset(q) ==
    LET pxSize == <<FracDivInt(q.relTexSize[1], q.tex.w),
                    FracDivInt(q.relTexSize[2], q.tex.h)>>
        topLeft == <<FracMulInt(pxSize[1], q.cropRect[1]),
                     FracMulInt(pxSize[2], q.cropRect[2])>>
        botRight == <<FracMulInt(pxSize[1], q.cropRect[3]),
                      FracMulInt(pxSize[2], q.cropRect[4])>>
    IN  [tex |-> q.outTex, topLeft |-> topLeft, botRight |-> botRight,
         pxSize |-> <<FracDivInt(FracSub(botRight[1], topLeft[1]), q.size[1]),
                      FracDivInt(FracSub(botRight[2], topLeft[2]),
                                 q.size[2])>>]

\* The end of prepareTexture(): the outputs composed from the locals.
PrepareResult(q) ==
    LET cropped == <<q.cropRect[1], q.cropRect[2]>> # <<0, 0>>
                   \/ <<q.cropRect[3], q.cropRect[4]>> # getSize(q.tex)
        pxSize == <<FracDivInt(q.relTexSize[1], q.tex.w),
                    FracDivInt(q.relTexSize[2], q.tex.h)>>
        topLeft == IF cropped
                   THEN <<FracMulInt(pxSize[1], q.cropRect[1]),
                          FracMulInt(pxSize[2], q.cropRect[2])>>
                   ELSE <<Frac(0, 1), Frac(0, 1)>>
        botRight == IF cropped
                    THEN <<FracMulInt(pxSize[1],
                                      q.cropRect[1] + q.cropRect[3]),
                           FracMulInt(pxSize[2],
                                      q.cropRect[2] + q.cropRect[4])>>
                    ELSE q.relTexSize
    IN  [tex |-> q.outTex, topLeft |-> topLeft, botRight |-> botRight,
         pxSize |-> <<FracDivInt(FracSub(botRight[1], topLeft[1]), q.size[1]),
                      FracDivInt(FracSub(botRight[2], topLeft[2]),
                                 q.size[2])>>]

-----------------------------------------------------------------------------
(* copyTextureData() *)

\* A texture of the application that is or is not mapped
\* (D3DTexture::isMapped()).
MappableTex(id, w, h, mapped) ==
    [kind |-> "ext", w |-> w, h |-> h, id |-> id, swz |-> FALSE,
     mapped |-> mapped]

\* D3DContext::copyTextureData(dst, src, dstPos, srcRect) with
\* dstPos = <<x, y>> and srcRect = <<x, y, width, height>>; QRect::right()
\* is x + width - 1 and QRect::bottom() is y + height - 1.  `ret` is the
\* returned value, `c` the context left; CopySubresourceRegion() is logged
\* with its destination, position, source and box <<left, top, right,
\* bottom>>.
copyTextureData(c, dst, src, dstPos, srcRect) ==
    LET right == srcRect[1] + srcRect[3] - 1
        bottom == srcRect[2] + srcRect[4] - 1
        Fail == [ret |-> FALSE, c |-> c]
    IN  IF dst = NullTex \/ src = NullTex THEN Fail
        ELSE IF dst.mapped \/ src.mapped THEN Fail
        ELSE IF \/ dstPos[1] < 0
                \/ dstPos[2] < 0
                \/ dstPos[1] + srcRect[3] > dst.w
                \/ dstPos[2] + srcRect[4] > dst.h
             THEN Fail
        ELSE IF \/ srcRect[1] < 0
                \/ srcRect[2] < 0
                \/ right > src.w
                \/ bottom > dst.h
             THEN Fail
        ELSE [ret |-> TRUE,
              c |-> Emit(c, <<"copy", dst, dstPos, src,
                              <<srcRect[1], srcRect[2], right + 1,
                                bottom + 1>>>>)]

-----------------------------------------------------------------------------
(* TexDecalVertBuf: the vertex buffer helper of a textured decal.  A        *)
(* `double` is a fraction; Huge stands for a value whose quotient by 1.0    *)
(* does not fit an `int` (magnitude 2^31 or more).                          *)

Huge == <<1, 0>>

DblAdd(a, b) ==
    IF a[2] = 0 \/ b[2] = 0 THEN Huge ELSE FracSub(a, <<-b[1], b[2]>>)

DblSub(a, b) == IF a[2] = 0 \/ b[2] = 0 THEN Huge ELSE FracSub(a, b)

DblMul(a, b) == IF a[2] = 0 \/ b[2] = 0 THEN Huge ELSE FracMul(a, b)

\* dblLerp(a, b, t)
dblLerp(a, b, t) == DblAdd(a, DblMul(t, DblSub(b, a)))

\* A conversion of an out-of-range double to `int` is undefined: it leaves
\* dblRepeat() with the value `ub`.
UbOutcomes == {Huge, Frac(0, 1)}

\* dblRepeat(num, 1.0); (int) truncates towards zero.
dblRepeat(num, ub) ==
    IF num[2] = 0 THEN ub
    ELSE LET trunc == IF num[1] >= 0 THEN num[1] \div num[2]
                      ELSE -((-num[1]) \div num[2])
             tmp == FracSub(num, Frac(trunc, 1))
         IN  IF tmp[1] < 0 THEN DblAdd(Frac(1, 1), tmp) ELSE tmp

GfxTriangleListTopology == "GfxTriangleListTopology"

GfxTriangleStripTopology == "GfxTriangleStripTopology"

NullPoint == <<Frac(0, 1), Frac(0, 1)>>

\* TexDecalVertBuf::TexDecalVertBuf(context)
InitDecal ==
    [m_vertBuf |-> <<>>, m_dirty |-> TRUE, m_hasScrolling |-> FALSE,
     m_rect |-> <<0, 0, 0, 0>>, m_scrollOffset |-> NullPoint,
     m_roundOffset |-> TRUE,
     m_tlUv |-> <<Frac(0, 1), Frac(0, 1)>>,
     m_trUv |-> <<Frac(1, 1), Frac(0, 1)>>,
     m_blUv |-> <<Frac(0, 1), Frac(1, 1)>>,
     m_brUv |-> <<Frac(1, 1), Frac(1, 1)>>]

\* TexDecalVertBuf::getTopology()
getTopology(d) ==
    IF d.m_hasScrolling THEN GfxTriangleListTopology
    ELSE GfxTriangleStripTopology

\* TexDecalVertBuf::deleteVertBuf(), the context being valid
deleteVertBuf(d) == [d EXCEPT !.m_vertBuf = <<>>]

\* TexDecalVertBuf::setRect(rect), rect = <<left, top, width, height>>
setRect(d, rect) ==
    IF d.m_rect = rect THEN d
    ELSE [d EXCEPT !.m_rect = rect, !.m_dirty = TRUE]

\* TexDecalVertBuf::setRoundOffset(round)
setRoundOffset(d, round) ==
    IF d.m_roundOffset = round THEN d
    ELSE [d EXCEPT !.m_roundOffset = round, !.m_dirty = TRUE]

\* TexDecalVertBuf::scrollBy(delta); ubX and ubY are what an undefined
\* conversion in dblRepeat() leaves for each axis.
scrollBy(d, delta, ubX, ubY) ==
    IF delta = NullPoint THEN d
    ELSE LET d1 == IF ~d.m_hasScrolling THEN deleteVertBuf(d) ELSE d
             sum == <<DblAdd(d.m_scrollOffset[1], delta[1]),
                      DblAdd(d.m_scrollOffset[2], delta[2])>>
         IN  [d1 EXCEPT !.m_hasScrolling = TRUE,
                        !.m_scrollOffset = <<dblRepeat(sum[1], ubX),
                                             dblRepeat(sum[2], ubY)>>,
                        !.m_dirty = TRUE]

\* TexDecalVertBuf::resetScrolling()
resetScrolling(d) ==
    IF d.m_scrollOffset = NullPoint THEN d
    ELSE LET d1 == IF d.m_hasScrolling THEN deleteVertBuf(d) ELSE d
         IN  [d1 EXCEPT !.m_hasScrolling = FALSE,
                        !.m_scrollOffset = NullPoint,
                        !.m_dirty = TRUE]

\* qRound(v) of a double v >= 0, as a double
qRound(v) ==
    IF v[2] = 0 THEN Huge
    ELSE Frac((2 * v[1] + v[2]) \div (2 * v[2]), 1)

\* The six vertices <<x, y, u, v>> TexDecalVertBuf::writeScrollRect() writes
\* for the rectangle <<left, top, right, bottom>>.
writeScrollRect(r, tlUv, trUv, blUv, brUv) ==
    <<<<r[1], r[2], tlUv[1], tlUv[2]>>, <<r[3], r[2], trUv[1], trUv[2]>>,
      <<r[1], r[4], blUv[1], blUv[2]>>, <<r[1], r[4], blUv[1], blUv[2]>>,
      <<r[3], r[2], trUv[1], trUv[2]>>, <<r[3], r[4], brUv[1], brUv[2]>>>>

\* TexDecalVertBuf::createScrollTexDecalRect(): the vertices written to a
\* buffer of ScrollRectBufSize bytes.
createScrollTexDecalRect(d) ==
    LET w == Frac(d.m_rect[3], 1)
        h == Frac(d.m_rect[4], 1)
        left == Frac(d.m_rect[1], 1)
        top == Frac(d.m_rect[2], 1)
        right == DblAdd(left, w)
        bottom == DblAdd(top, h)
        snap == d.m_roundOffset /\ d.m_rect[3] > 0 /\ d.m_rect[4] > 0
        xLerp == IF snap
                 THEN DblMul(qRound(DblMul(d.m_scrollOffset[1], w)),
                             Frac(1, d.m_rect[3]))
                 ELSE d.m_scrollOffset[1]
        yLerp == IF snap
                 THEN DblMul(qRound(DblMul(d.m_scrollOffset[2], h)),
                             Frac(1, d.m_rect[4]))
                 ELSE d.m_scrollOffset[2]
        \* the scroll position inside the rectangle
        midX == DblAdd(left, DblMul(w, xLerp))
        midY == DblAdd(top, DblMul(h, yLerp))
        \* UV coordinates interpolated at the scroll position
        tX == dblLerp(d.m_trUv[1], d.m_tlUv[1], xLerp)
        bX == dblLerp(d.m_brUv[1], d.m_blUv[1], xLerp)
        lY == dblLerp(d.m_blUv[2], d.m_tlUv[2], yLerp)
        rY == dblLerp(d.m_brUv[2], d.m_trUv[2], yLerp)
    IN  \* top-left rectangle
        writeScrollRect(<<left, top, midX, midY>>,
                        <<tX, lY>>, <<d.m_trUv[1], rY>>,
                        <<bX, d.m_blUv[2]>>, d.m_brUv)
        \* top-right rectangle
        \o writeScrollRect(<<midX, top, right, midY>>,
                           <<d.m_tlUv[1], lY>>, <<tX, rY>>,
                           d.m_blUv, <<bX, d.m_brUv[2]>>)
        \* bottom-left rectangle
        \o writeScrollRect(<<left, midY, midX, bottom>>,
                           <<tX, d.m_tlUv[2]>>, d.m_trUv,
                           <<bX, lY>>, <<d.m_brUv[1], rY>>)
        \* bottom-right rectangle
        \o writeScrollRect(<<midX, midY, right, bottom>>,
                           d.m_tlUv, <<tX, d.m_trUv[2]>>,
                           <<d.m_blUv[1], lY>>, <<bX, rY>>)

\* GraphicsContext::createTexDecalRect(outBuf, rect, tlUv, trUv, blUv, brUv):
\* the four vertices <<x, y, u, v>> of the strip.
createTexDecalStrip(d) ==
    LET left == Frac(d.m_rect[1], 1)
        top == Frac(d.m_rect[2], 1)
        right == Frac(d.m_rect[1] + d.m_rect[3], 1)
        bottom == Frac(d.m_rect[2] + d.m_rect[4], 1)
    IN  <<<<left, top, d.m_tlUv[1], d.m_tlUv[2]>>,
          <<right, top, d.m_trUv[1], d.m_trUv[2]>>,
          <<left, bottom, d.m_blUv[1], d.m_blUv[2]>>,
          <<right, bottom, d.m_brUv[1], d.m_brUv[2]>>>>

\* TexDecalVertBuf::getVertBuf() with a valid context: the buffer, if
\* missing, is created for the current mode and the vertices are rewritten
\* when the decal is dirty.  A buffer is the sequence of its vertices.
getVertBuf(d) ==
    IF ~d.m_dirty THEN d
    ELSE [d EXCEPT !.m_vertBuf = IF d.m_hasScrolling
                                 THEN createScrollTexDecalRect(d)
                                 ELSE createTexDecalStrip(d),
                   !.m_dirty = FALSE]

-----------------------------------------------------------------------------
(* Bounds of the model *)

\* nResize stops counting here.
MaxResizeCount == 4

\* p.passes stops counting here.
MaxPasses == 6

-----------------------------------------------------------------------------
(* Initial state: the context as the constructors of GraphicsContext and    *)
(* D3DContext leave it.  No device exists yet, so nothing is bound and no   *)
(* buffer or texture has been created.                                      *)

White == <<255, 255, 255, 255>>

DefaultEffects == <<Frac(1, 1), Frac(0, 1), Frac(1, 1), Frac(1, 1)>>

InitCtx ==
    [m_currentTarget |-> GfxScreenTarget,
     m_screenViewMat |-> IdentityMat, m_screenProjMat |-> IdentityMat,
     m_canvasViewMat |-> IdentityMat, m_canvasProjMat |-> IdentityMat,
     m_scratchViewMat |-> IdentityMat, m_scratchProjMat |-> IdentityMat,
     m_userViewMat |-> IdentityMat, m_userProjMat |-> IdentityMat,
     m_cameraConstantsDirty |-> FALSE,
     m_userTargets |-> <<NullTex, NullTex>>,
     m_resizeRect |-> <<0, 0, 0, 0>>,
     m_resizeConstantsDirty |-> FALSE,
     m_rgbNv16PxSize |-> <<Frac(0, 1), Frac(0, 1)>>,
     m_rgbNv16ConstantsDirty |-> FALSE,
     m_texDecalModulate |-> White,
     m_texDecalEffects |-> DefaultEffects,
     m_texDecalConstantsDirty |-> FALSE,
     m_canvas1Texture |-> NullTex, m_canvas2Texture |-> NullTex,
     m_canvasTargetSize |-> <<0, 0>>,
     m_scratch1Texture |-> NullTex, m_scratch2Texture |-> NullTex,
     m_scratchTargetSize |-> <<0, 0>>,
     m_scratchNextTarget |-> 0,
     m_cameraConstantsLocal |-> ZeroLocal, m_cameraConstants |-> NullBuffer,
     m_resizeConstantsLocal |-> ZeroLocal, m_resizeConstants |-> NullBuffer,
     m_rgbNv16ConstantsLocal |-> ZeroLocal, m_rgbNv16Constants |-> NullBuffer,
     m_texDecalConstantsLocal |-> ZeroLocal,
     m_texDecalConstants |-> NullBuffer,
     m_texDecalFlags |-> 0,
     m_boundShader |-> "GfxNoShader",
     m_mipmapBuf |-> EmptyBuf,
     dev_renderTarget |-> NullTex,
     dev_textures |-> <<NullTex, NullTex, NullTex>>,
     trace |-> <<>>]

NoResult == DegenerateResult(NullTex)

Init ==
    /\ ctx = InitCtx
    /\ pc = "init"
    /\ p = IdleP
    /\ resizeLog = <<>>
    /\ nResize = 0
    /\ nextLog = <<>>
    /\ result = NoResult
    /\ decal = InitDecal

-----------------------------------------------------------------------------
(* Bookkeeping shared by the actions *)

ResizeEvents(c) == SelectSeq(c.trace, LAMBDA e : e[1] = "resize")

GetNextEvents(c) == SelectSeq(c.trace, LAMBDA e : e[1] = "getNext")

DrawEvents(c) == SelectSeq(c.trace, LAMBDA e : e[1] = "draw")

UploadEvents(c) == SelectSeq(c.trace, LAMBDA e : e[1] = "upload")

LastTwo(log) ==
    IF Len(log) <= 2 THEN log ELSE SubSeq(log, Len(log) - 1, Len(log))

\* Did the operation that left context c delete the scratch textures?
Reallocated(c) ==
    \E i \in 1..Len(c.trace) : c.trace[i][1] = "resize" /\ c.trace[i][5]

\* The context at the start of a public operation.
Start == [ctx EXCEPT !.trace = <<>>]

\* The state a public operation leaves: context c, program position `next`,
\* prepareTexture() locals q and returned value res.
Commit(c, next, q, res) ==
    /\ ctx' = c
    /\ pc' = next
    /\ p' = q
    /\ resizeLog' = LastTwo(resizeLog \o ResizeEvents(c))
    /\ nResize' = Min(nResize + Len(ResizeEvents(c)), MaxResizeCount)
    /\ nextLog' = LastTwo(nextLog \o GetNextEvents(c))
    /\ result' = res
    /\ UNCHANGED decal

\* The value the application still holds from the last prepareTexture() or
\* convertToBgrx() call, after an operation that returns no texture: a
\* pointer to a scratch texture dangles once the pool was reallocated.
Kept(c) ==
    IF Reallocated(c) THEN [result EXCEPT !.tex = Dangling(@)] ELSE result

\* D3DContext::initialize, for the run in which the device, the swap chain,
\* the shaders and the constant buffers can be created (otherwise it returns
\* false and the context is not used).  The screen target is bound, then
\* each flag is forced and cleared by its update method (which uploads
\* nothing, the buffer does not exist yet), each buffer is created with the
\* local array as initial data, and the scratch targets get their initial
\* size.  ok1 and ok2 are the outcomes of creating the two scratch textures.
initialize(c, ok1, ok2) ==
    LET \* m_device->CreateBuffer() with the local array as initial data
        CameraBuffer(c1) ==
            [c1 EXCEPT !.m_cameraConstants = c1.m_cameraConstantsLocal]
        ResizeBuffer(c3) ==
            [c3 EXCEPT !.m_resizeConstants = c3.m_resizeConstantsLocal]
        RgbNv16Buffer(c5) ==
            [c5 EXCEPT !.m_rgbNv16Constants = c5.m_rgbNv16ConstantsLocal]
        TexDecalBuffer(c7) ==
            [c7 EXCEPT !.m_texDecalConstants =
                           c7.m_texDecalConstantsLocal]
        \* m_xConstantsDirty = true; updateXConstants();
        Camera(c0) ==
            CameraBuffer(updateCameraConstants(
                [c0 EXCEPT !.m_cameraConstantsDirty = TRUE], TRUE))
        Resize(c2) ==
            ResizeBuffer(updateResizeConstants(
                [c2 EXCEPT !.m_resizeConstantsDirty = TRUE], TRUE))
        RgbNv16(c4) ==
            RgbNv16Buffer(updateRgbNv16Constants(
                [c4 EXCEPT !.m_rgbNv16ConstantsDirty = TRUE], TRUE))
        TexDecal(c6) ==
            TexDecalBuffer(updateTexDecalConstants(
                [c6 EXCEPT !.m_texDecalConstantsDirty = TRUE], TRUE))
        c8 == TexDecal(RgbNv16(Resize(Camera(
                  setRenderTarget(c, GfxScreenTarget)))))
    IN  [resizeScratchTarget(
             [c8 EXCEPT !.m_scratchNextTarget = 0],
             <<InitialScratchDim, InitialScratchDim>>, ok1, ok2)
         EXCEPT !.m_mipmapBuf = EmptyBuf]

Initialize(ok1, ok2) ==
    /\ pc = "init"
    /\ Commit(initialize(Start, ok1, ok2), "ready", p, result)

-----------------------------------------------------------------------------
(* The public operations, callable when no other call is in progress *)

\* An operation that returns no texture and leaves context c.
Call(c) ==
    /\ pc = "ready"
    /\ Commit(c, "ready", p, Kept(c))

ResizeScratchTarget(newSize, ok1, ok2) ==
    Call(resizeScratchTarget(Start, newSize, ok1, ok2))

GetNextScratchTarget == Call(getNextScratchTarget(Start))

SetRenderTarget(target) == Call(setRenderTarget(Start, target))

SetViewMatrix(matrix) == Call(setViewMatrix(Start, matrix))

SetProjectionMatrix(matrix) == Call(setProjectionMatrix(Start, matrix))

SetScreenViewMatrix(matrix) == Call(setScreenViewMatrix(Start, matrix))

SetScreenProjectionMatrix(matrix) ==
    Call(setScreenProjectionMatrix(Start, matrix))

SetResizeLayerRect(rect) == Call(setResizeLayerRect(Start, rect))

SetRgbNv16PxSize(size) == Call(setRgbNv16PxSize(Start, size))

SetTexDecalModColor(color) == Call(setTexDecalModColor(Start, color))

SetTexDecalEffects(gamma, brightness, contrast, saturation) ==
    Call(setTexDecalEffects(Start, gamma, brightness, contrast, saturation))

SetShader(shader) == Call(setShader(Start, shader))

SetTexture(texA, texB, texC) == Call(setTexture(Start, texA, texB, texC))

\* drawBuffer() on a vertex buffer of the application holding 4 vertices.
DrawBuffer(numVertices, okCam, okPs) ==
    Call(drawBuffer(Start, [EmptyBuf EXCEPT !.numVerts = 4], numVertices,
                    okCam, okPs))

SetUserRenderTarget(texA, texB) ==
    Call(setUserRenderTarget(Start, texA, texB))

ResizeCanvasTarget(newSize, r1, r2) ==
    Call(resizeCanvasTarget(Start, newSize, r1, r2))

ConvertToBgrx(format, planeA, planeB, planeC, env) ==
    LET Leave(r) == Commit(r.c, "ready", p, [NoResult EXCEPT !.tex = r.ret])
    IN  /\ pc = "ready"
        /\ Leave(convertToBgrx(Start, format, planeA, planeB, planeC, env))

\* prepareTexture(): entry.  Invalid input returns at once; otherwise the
\* locals are set up and control reaches the switch on the filter.
PrepareTexture(tex, cropRect, size, filter) ==
    /\ pc = "ready"
    /\ IF PrepareDegenerate(tex, size)
       THEN Commit(Start, "ready", p, DegenerateResult(tex))
       ELSE \E icw \in InvCropChoices(size[1], cropRect[3], tex.w),
               ich \in InvCropChoices(size[2], cropRect[4], tex.h) :
                Commit(Start, "prepare",
                       PrepareSetup(Start, tex, cropRect, size, filter,
                                    icw, ich),
                       Kept(Start))

\* prepareTexture(): one iteration of the mipmap loop.
PreparePass(env) ==
    LET Leave(c, q) ==
            Commit(c, "prepare",
                   IF Reallocated(c) THEN [q EXCEPT !.tex = Dangling(@)]
                   ELSE q,
                   Kept(c))
        After(c) == Leave(c, MipmapPassLocals(Start, p, c, MaxPasses))
    IN  /\ pc = "prepare"
        /\ ~MipmapsDone(p)
        /\ After(MipmapPass(Start, p, env))

\* prepareTexture(): from "Restore original state" to the return.
PrepareReturn ==
    /\ pc = "prepare"
    /\ MipmapsDone(p)
    /\ Commit(setRenderTarget(Start, p.origTarget), "ready", IdleP,
              PrepareResult(p))

-----------------------------------------------------------------------------
(* The scratch target pool on its own: initialize(), resizeScratchTarget()  *)
(* and getNextScratchTarget() with every outcome of texture creation.       *)

\* The sizes the application asks the pool for.
PoolSizes ==
    {<<100, 100>>, <<600, 300>>, <<100, 300>>, <<100, 512>>, <<600, 100>>,
     <<600, 600>>}

NextPool ==
    \/ \E ok1, ok2 \in BOOLEAN : Initialize(ok1, ok2)
    \/ \E newSize \in PoolSizes, ok1, ok2 \in BOOLEAN :
            ResizeScratchTarget(newSize, ok1, ok2)
    \/ GetNextScratchTarget

SpecPool == Init /\ [][NextPool]_vars

-----------------------------------------------------------------------------
(* The constant setters on their own: the eight setters, setRenderTarget()  *)
(* and drawBuffer() with no pixel shader bound.  The user target has no     *)
(* texture, so selecting it binds nothing.                                  *)

SetterMats == {IdentityMat, OrthoMat(2, 2)}

SetterTargets == {GfxScreenTarget, GfxUserTarget}

SetterRects == {<<0, 0, 0, 0>>, <<0, 0, 4, 4>>}

SetterPxSizes ==
    {<<Frac(0, 1), Frac(0, 1)>>, <<Frac(1, 4), Frac(1, 4)>>}

SetterColors == {White, <<255, 0, 0, 255>>}

\* Gamma values: the default, and 0, which is replaced by 0.01.
SetterGammas == {Frac(1, 1), Frac(0, 1)}

NextSetters ==
    \/ \E ok1, ok2 \in BOOLEAN : Initialize(ok1, ok2)
    \/ \E target \in SetterTargets : SetRenderTarget(target)
    \/ \E matrix \in SetterMats : SetViewMatrix(matrix)
    \/ \E matrix \in SetterMats : SetProjectionMatrix(matrix)
    \/ \E matrix \in SetterMats : SetScreenViewMatrix(matrix)
    \/ \E matrix \in SetterMats : SetScreenProjectionMatrix(matrix)
    \/ \E rect \in SetterRects : SetResizeLayerRect(rect)
    \/ \E size \in SetterPxSizes : SetRgbNv16PxSize(size)
    \/ \E color \in SetterColors : SetTexDecalModColor(color)
    \/ \E gamma \in SetterGammas :
            SetTexDecalEffects(gamma, Frac(0, 1), Frac(1, 1), Frac(1, 1))
    \/ DrawBuffer(-1, TRUE, TRUE)

SpecSetters == Init /\ [][NextSetters]_vars

-----------------------------------------------------------------------------
(* The constant cache: the setters, setShader() and drawBuffer() with every *)
(* outcome of the uploads, rendering to the screen.  Each setter is given   *)
(* one value that differs from the default, so its first call changes the   *)
(* value and later calls repeat it.                                         *)

CacheMat == OrthoMat(2, 2)

CacheRect == <<0, 0, 4, 4>>

CachePxSize == <<Frac(1, 4), Frac(1, 4)>>

CacheColor == <<255, 0, 0, 255>>

CacheGamma == Frac(2, 1)

\* A BGRA texture of the application, which needs the swizzle.
CacheTex == ExtTex(1, 8, 8, TRUE)

CacheShaders ==
    {"GfxTexDecalShader", "GfxResizeLayerShader", "GfxRgbNv16Shader"}

\* A call of one of the eight constant setters.
CacheSetter ==
    \/ SetViewMatrix(CacheMat)
    \/ SetProjectionMatrix(CacheMat)
    \/ SetScreenViewMatrix(CacheMat)
    \/ SetScreenProjectionMatrix(CacheMat)
    \/ SetResizeLayerRect(CacheRect)
    \/ SetRgbNv16PxSize(CachePxSize)
    \/ SetTexDecalModColor(CacheColor)
    \/ SetTexDecalEffects(CacheGamma, Frac(0, 1), Frac(1, 1), Frac(1, 1))

NextCache ==
    \/ Initialize(TRUE, TRUE)
    \/ SetRenderTarget(GfxScreenTarget)
    \/ CacheSetter
    \/ \E shader \in CacheShaders : SetShader(shader)
    \/ SetTexture(CacheTex, NullTex, NullTex)
    \/ \E numVertices \in {-1, 0}, okCam, okPs \in BOOLEAN :
            DrawBuffer(numVertices, okCam, okPs)

SpecCache == Init /\ [][NextCache]_vars

-----------------------------------------------------------------------------
(* The render pipeline: the pool, the render target, a setter of the camera *)
(* group, the shader, the texture, drawBuffer(), convertToBgrx() and        *)
(* prepareTexture(), on one 8x8 BGRA texture.                               *)

\* Every device call succeeds.
AllOk ==
    [ok1 |-> TRUE, ok2 |-> TRUE, okUpload |-> TRUE, okCam |-> TRUE,
     okPs |-> TRUE, garbage |-> FALSE]

Next ==
    \/ Initialize(TRUE, TRUE)
    \/ ResizeScratchTarget(<<600, 100>>, TRUE, TRUE)
    \/ GetNextScratchTarget
    \/ \E target \in {GfxScreenTarget, GfxScratch1Target} :
            SetRenderTarget(target)
    \/ SetViewMatrix(CacheMat)
    \/ SetShader("GfxTexDecalShader")
    \/ SetTexture(CacheTex, NullTex, NullTex)
    \/ DrawBuffer(-1, TRUE, TRUE)
    \/ \E okUpload \in BOOLEAN :
            ConvertToBgrx("GfxUYVYFormat", CacheTex, NullTex, NullTex,
                          [AllOk EXCEPT !.okUpload = okUpload])
    \/ PrepareTexture(CacheTex, FullRect(CacheTex), <<2, 2>>,
                      "GfxBilinearFilter")
    \/ PreparePass(AllOk)
    \/ PrepareReturn

Spec == Init /\ [][Next]_vars

-----------------------------------------------------------------------------
(* convertToBgrx() with every kind of format and plane set, with the        *)
(* screen or a scratch target as the render target of the caller.           *)

\* The plane textures of the application: luma planes of 8x4, 9x4 and 160x4
\* and chroma planes of 4x2 (two of them), 4x4 and 80x2.
ConvLuma == ExtTex(1, 8, 4, FALSE)

ConvChromaU == ExtTex(2, 4, 2, FALSE)

ConvChromaV == ExtTex(3, 4, 2, FALSE)

ConvTall == ExtTex(4, 4, 4, FALSE)

ConvOddLuma == ExtTex(5, 9, 4, FALSE)

ConvWideLuma == ExtTex(6, 160, 4, FALSE)

ConvWideChroma == ExtTex(7, 80, 2, FALSE)

\* The plane sets <<planeA, planeB, planeC>> passed with a three-plane
\* format ...
ThreePlaneSets ==
    {<<ConvLuma, ConvChromaU, ConvChromaV>>,
     <<ConvLuma, ConvChromaV, ConvChromaU>>,
     <<ConvOddLuma, ConvChromaU, ConvChromaV>>,
     <<ConvWideLuma, ConvWideChroma, ConvWideChroma>>,
     <<ConvLuma, ConvTall, ConvChromaV>>,
     <<ConvLuma, ConvChromaU, ConvTall>>,
     <<ConvLuma, ConvWideChroma, ConvChromaV>>,
     <<NullTex, ConvChromaU, ConvChromaV>>,
     <<ConvLuma, NullTex, ConvChromaV>>,
     <<ConvLuma, ConvChromaU, NullTex>>}

\* ... and the calls made: <<format, planeA, planeB, planeC>>.
ConvCalls ==
    {<<format, set[1], set[2], set[3]>> :
        format \in ThreePlaneFormats, set \in ThreePlaneSets}
    \cup {<<format, ConvLuma, ConvChromaU, ConvChromaV>> :
            format \in GfxPixelFormat \ ThreePlaneFormats}
    \cup {<<"GfxYUY2Format", NullTex, NullTex, NullTex>>,
          <<"GfxUYVYFormat", ConvWideChroma, NullTex, NullTex>>}

NextConvert ==
    \/ Initialize(TRUE, TRUE)
    \/ \E target \in {GfxScreenTarget, GfxScratch1Target} :
            SetRenderTarget(target)
    \/ \E call \in ConvCalls, okUpload \in BOOLEAN :
            ConvertToBgrx(call[1], call[2], call[3], call[4],
                          [AllOk EXCEPT !.okUpload = okUpload])

SpecConvert == Init /\ [][NextConvert]_vars

-----------------------------------------------------------------------------
(* The three callers of resizeScratchTarget(): the application,             *)
(* convertToBgrx() and prepareTexture(), each with a size that makes the    *)
(* pool reallocate and with one that does not.                              *)

NextResize ==
    \/ Initialize(TRUE, TRUE)
    \/ \E newSize \in {<<600, 100>>, <<100, 100>>} :
            ResizeScratchTarget(newSize, TRUE, TRUE)
    \/ \E env \in {[AllOk EXCEPT !.okUpload = ok] : ok \in BOOLEAN} :
            \/ ConvertToBgrx("GfxYV12Format", ConvWideLuma, ConvWideChroma,
                             ConvWideChroma, env)
            \/ ConvertToBgrx("GfxUYVYFormat", ConvLuma, NullTex, NullTex, env)
    \/ PrepareTexture(ExtTex(8, 1040, 16, TRUE), <<0, 0, 1040, 16>>,
                      <<20, 2>>, "GfxBilinearFilter")
    \/ PreparePass(AllOk)
    \/ PrepareReturn

SpecResize == Init /\ [][NextResize]_vars

-----------------------------------------------------------------------------
(* The conversion pipeline: convertToBgrx() on application planes and       *)
(* prepareTexture() on an application texture or on the texture the call    *)
(* before returned, with every outcome of the creation of the scratch       *)
(* textures, and with the screen or a scratch target as the render target   *)
(* of the caller.                                                           *)

\* The outcomes of the two createTexture() calls of a reallocation.
CreateOutcomes ==
    {[AllOk EXCEPT !.ok1 = ok1, !.ok2 = ok2] : ok1, ok2 \in BOOLEAN}

\* The target sizes asked of prepareTexture(): one that shrinks both axes
\* and one that shrinks the width and enlarges the height.
PipelineSizes == {<<100, 100>>, <<100, 600>>}

NextPipeline ==
    \/ \E ok1, ok2 \in BOOLEAN : Initialize(ok1, ok2)
    \/ \E target \in {GfxScreenTarget, GfxScratch1Target} :
            SetRenderTarget(target)
    \/ \E env \in CreateOutcomes :
            ConvertToBgrx("GfxUYVYFormat", ConvWideChroma, NullTex, NullTex,
                          env)
    \/ \E tex \in {ExtTex(8, 1040, 16, TRUE), result.tex},
          size \in PipelineSizes :
            /\ tex.kind \in {"ext", "scratch"}
            /\ PrepareTexture(tex, FullRect(tex), size, "GfxBilinearFilter")
    \/ \E env \in CreateOutcomes : PreparePass(env)
    \/ PrepareReturn

SpecPipeline == Init /\ [][NextPipeline]_vars

-----------------------------------------------------------------------------
(* A decal of the application: it is moved, scrolled by steps of a quarter  *)
(* of its size and by an amount beyond the range of `int`, reset, and read  *)
(* once the context is initialized.                                         *)

DecalDeltas ==
    {NullPoint, <<Frac(1, 2), Frac(0, 1)>>, <<Frac(-1, 4), Frac(1, 4)>>,
     <<Frac(5, 4), Frac(-3, 2)>>, <<Huge, Frac(0, 1)>>}

DecalRects == {<<0, 0, 4, 2>>, <<10, 20, 6, 8>>}

\* A method of the decal that leaves it as d.
DecalCall(d) ==
    /\ decal' = d
    /\ UNCHANGED <<ctx, pc, p, resizeLog, nResize, nextLog, result>>

NextDecal ==
    \/ \E ok1, ok2 \in BOOLEAN : Initialize(ok1, ok2)
    \/ \E delta \in DecalDeltas, ubX, ubY \in UbOutcomes :
            DecalCall(scrollBy(decal, delta, ubX, ubY))
    \/ DecalCall(resetScrolling(decal))
    \/ \E rect \in DecalRects : DecalCall(setRect(decal, rect))
    \/ \E round \in BOOLEAN : DecalCall(setRoundOffset(decal, round))
    \/ pc = "ready" /\ DecalCall(getVertBuf(decal))

SpecDecal == Init /\ [][NextDecal]_vars

-----------------------------------------------------------------------------
(* Copies between two textures of the application, mapped or not, of       *)
(* regions inside, on the edge of and outside each texture.                 *)

CopyTextures ==
    {NullTex, MappableTex(1, 4, 4, FALSE), MappableTex(2, 8, 8, FALSE),
     MappableTex(3, 4, 4, TRUE)}

CopyPositions == {<<0, 0>>, <<-1, 0>>, <<0, 4>>, <<5, 5>>}

CopyRects ==
    {<<0, 0, 4, 4>>, <<0, 0, 5, 4>>, <<0, 0, 4, 8>>, <<1, 1, 3, 3>>,
     <<1, 1, 4, 4>>, <<-1, 0, 2, 2>>, <<0, -1, 2, 2>>, <<2, 2, 2, 2>>}

CopyTextureData(dst, src, dstPos, srcRect) ==
    Call(copyTextureData(Start, dst, src, dstPos, srcRect).c)

NextCopy ==
    \/ \E ok1, ok2 \in BOOLEAN : Initialize(ok1, ok2)
    \/ \E dst, src \in CopyTextures, dstPos \in CopyPositions,
          srcRect \in CopyRects :
            CopyTextureData(dst, src, dstPos, srcRect)

SpecCopy == Init /\ [][NextCopy]_vars

-----------------------------------------------------------------------------
(* The camera constants: the render target is changed, to the screen or to  *)
(* a scratch target that may have no texture; the matrices of the current   *)
(* target and of the screen are set; the application draws; textures are    *)
(* converted and prepared.  Every upload succeeds.                          *)

NextCamera ==
    \/ \E ok1, ok2 \in BOOLEAN : Initialize(ok1, ok2)
    \/ \E target \in {GfxScreenTarget, GfxScratch1Target} :
            SetRenderTarget(target)
    \/ SetViewMatrix(CacheMat)
    \/ SetProjectionMatrix(CacheMat)
    \/ SetScreenViewMatrix(CacheMat)
    \/ SetScreenProjectionMatrix(CacheMat)
    \/ DrawBuffer(-1, TRUE, TRUE)
    \/ ConvertToBgrx("GfxUYVYFormat", ConvWideChroma, NullTex, NullTex,
                     AllOk)
    \/ PrepareTexture(ConvWideLuma, FullRect(ConvWideLuma), <<40, 4>>,
                      "GfxBilinearFilter")
    \/ PreparePass(AllOk)
    \/ PrepareReturn

SpecCamera == Init /\ [][NextCamera]_vars

-----------------------------------------------------------------------------
(* prepareTexture() on its own: sources smaller and larger than the pool;   *)
(* the whole texture, a part of it, a rectangle beyond it, an empty         *)
(* rectangle (QRect()) and one of negative width as crops; targets that     *)
(* shrink and enlarge.                                                      *)

\* The calls made: <<tex, cropRect, size, filter>>.
PrepCalls ==
    LET small == ExtTex(1, 8, 8, TRUE)
        wide == ExtTex(2, 64, 16, TRUE)
        large == ExtTex(3, 1040, 16, TRUE)
        hd == ExtTex(4, 1920, 1080, TRUE)
    IN  {<<hd, FullRect(hd), <<480, 270>>, "GfxBilinearFilter">>,
         <<small, FullRect(small), <<2, 2>>, "GfxBilinearFilter">>,
         <<small, FullRect(small), <<20, 20>>, "GfxBilinearFilter">>,
         <<small, FullRect(small), <<2, 2>>, "GfxPointFilter">>,
         <<small, <<0, 0, 0, 0>>, <<2, 2>>, "GfxPointFilter">>,
         <<wide, <<16, 4, 32, 8>>, <<4, 2>>, "GfxPointFilter">>,
         <<small, FullRect(small), <<0, 2>>, "GfxBilinearFilter">>,
         <<small, FullRect(small), <<2, -3>>, "GfxPointFilter">>,
         <<NullTex, FullRect(small), <<2, 2>>, "GfxBilinearFilter">>,
         <<small, <<0, 0, 32, 32>>, <<4, 4>>, "GfxBilinearFilter">>,
         <<small, <<0, 0, 0, 0>>, <<2, 2>>, "GfxBilinearFilter">>,
         <<small, <<0, 0, -4, 8>>, <<2, 2>>, "GfxBilinearFilter">>,
         <<wide, FullRect(wide), <<2, 2>>, "GfxBilinearFilter">>,
         <<wide, <<16, 0, 32, 16>>, <<20, 20>>, "GfxBilinearFilter">>,
         <<wide, <<16, 4, 32, 8>>, <<4, 2>>, "GfxBilinearFilter">>,
         <<large, FullRect(large), <<20, 2>>, "GfxBilinearFilter">>,
         <<large, <<0, 0, 5, 5>>, <<2, 2>>, "GfxBilinearFilter">>}

NextPrepare ==
    \/ Initialize(TRUE, TRUE)
    \/ \E call \in PrepCalls :
            PrepareTexture(call[1], call[2], call[3], call[4])
    \/ PreparePass(AllOk)
    \/ PrepareReturn

SpecPrepare == Init /\ [][NextPrepare]_vars

\* The steps of a call in progress, told by the position of the call: with
\* the exit test of the loop false the call makes one more pass, which calls
\* getNextScratchTarget() once; with the test true it returns.
PassStep ==
    /\ pc = "prepare"
    /\ ~MipmapsDone(p)
    /\ nextLog' =
           LastTwo(Append(nextLog,
                          <<"getNext", getNextScratchTarget_ret(ctx)>>))

ReturnStep == pc = "prepare" /\ MipmapsDone(p) /\ pc' = "ready"

\* The scheduling of a call in progress: prepareTexture() runs on the
\* calling thread, so a pass that can be made is made and a return that can
\* be made is made.
SpecPrepareFair ==
    SpecPrepare /\ WF_nextLog(PassStep) /\ WF_pc(ReturnStep)

-----------------------------------------------------------------------------
(* Vocabulary of the properties *)

\* The physical capacity of the pool: the size of its textures.
Capacity(c) ==
    IF c.m_scratch1Texture # NullTex THEN getSize(c.m_scratch1Texture)
    ELSE <<0, 0>>

PoolAllocated(c) ==
    c.m_scratch1Texture # NullTex /\ c.m_scratch2Texture # NullTex

SizeLeq(a, b) == a[1] <= b[1] /\ a[2] <= b[2]

\* Largest exponent of the powers of two the properties range over.
MaxPowExp == 12

\* The smallest power of two that is >= n, by definition.
LeastPow2Geq(n) ==
    CHOOSE q \in {Pow2(k) : k \in 0..MaxPowExp} :
        /\ q >= n
        /\ \A k \in 0..MaxPowExp : Pow2(k) >= n => q <= Pow2(k)

LeastPow2Size(size) == <<LeastPow2Geq(size[1]), LeastPow2Geq(size[2])>>

\* Fields of a "resize" event.
Req(e) == e[2]
CapBefore(e) == e[3]
CapAfter(e) == e[4]
DidRealloc(e) == e[5]

\* C1: over any sequence of resize calls the physical capacity never
\* decreases on either axis (stated for the steps that leave the pool
\* textures allocated, so that a failed texture creation does not count).
C1_CapacityNeverDecreases ==
    [][(PoolAllocated(ctx) /\ PoolAllocated(ctx'))
            => SizeLeq(Capacity(ctx), Capacity(ctx'))]_vars

\* The pool has been asked for (100,100) and then (600,300), and for nothing
\* else since initialize().
C2_Scenario ==
    /\ pc = "ready"
    /\ nResize = 3
    /\ Len(resizeLog) = 2
    /\ Req(resizeLog[1]) = <<100, 100>>
    /\ Req(resizeLog[2]) = <<600, 300>>
    /\ ctx.m_scratch1Texture # NullTex

\* C2 as stated: after resize((100,100)) and resize((600,300)) the capacity
\* is (1024,1024) and ratio() is (600/1024, 300/1024).
C2_Original ==
    C2_Scenario =>
        /\ Capacity(ctx) = <<1024, 1024>>
        /\ getScratchTargetToTextureRatio(ctx)
               = <<Frac(600, 1024), Frac(300, 1024)>>

\* C2 as amended: after resize((100,100)) and resize((600,300)) the capacity
\* is (1024,512) and ratio() is (600/1024, 300/512).
C2_Amended ==
    C2_Scenario =>
        /\ Capacity(ctx) = <<1024, 512>>
        /\ getScratchTargetToTextureRatio(ctx)
               = <<Frac(600, 1024), Frac(300, 512)>>

C2_Witness ==
    C2_Scenario /\ PoolAllocated(ctx) /\ Len(ResizeEvents(ctx)) = 1

\* Two sizes s1 <= s2 were requested in sequence from an empty pool and
\* the textures asked for could be created.
C3_Scenario ==
    /\ Len(resizeLog) = 2
    /\ CapBefore(resizeLog[1]) = <<0, 0>>
    /\ CapAfter(resizeLog[1]) # <<0, 0>>
    /\ ctx.m_scratch1Texture # NullTex
    /\ SizeLeq(<<1, 1>>, Req(resizeLog[1]))
    /\ SizeLeq(Req(resizeLog[1]), Req(resizeLog[2]))

\* C3: for s1 <= s2 requested in sequence from an empty pool the capacity
\* after both requests is nextPow2(s2) per axis, except when nextPow2(s1)
\* >= s2 on both axes, where the second request reallocates nothing and
\* leaves the capacity at nextPow2(s1).
C3_TwoRequests ==
    C3_Scenario =>
        LET s1 == Req(resizeLog[1])
            s2 == Req(resizeLog[2])
        IN  IF SizeLeq(s2, LeastPow2Size(s1))
            THEN /\ ~DidRealloc(resizeLog[2])
                 /\ Capacity(ctx) = LeastPow2Size(s1)
                 /\ CapAfter(resizeLog[2]) = CapBefore(resizeLog[2])
            ELSE /\ DidRealloc(resizeLog[2])
                 /\ Capacity(ctx) = LeastPow2Size(s2)

C3_Witness ==
    /\ C3_Scenario
    /\ Req(resizeLog[1]) = <<100, 300>>
    /\ Req(resizeLog[2]) = <<100, 512>>
    /\ ~DidRealloc(resizeLog[2])

C3_WitnessGrow ==
    /\ C3_Scenario
    /\ Req(resizeLog[1]) = <<100, 300>>
    /\ Req(resizeLog[2]) = <<600, 300>>
    /\ DidRealloc(resizeLog[2])

\* C4: whenever the pool textures are allocated, ratio() is the size passed
\* to the most recent resize divided by the physical size, per axis, and
\* each component lies in (0, 1].
C4_Ratio ==
    (Len(resizeLog) >= 1 /\ PoolAllocated(ctx)) =>
        LET req == Req(resizeLog[Len(resizeLog)])
            cap == Capacity(ctx)
            ratio == getScratchTargetToTextureRatio(ctx)
        IN  /\ ratio[1][1] * cap[1] = req[1] * ratio[1][2]
            /\ ratio[2][1] * cap[2] = req[2] * ratio[2][2]
            /\ 0 < ratio[1][1] /\ ratio[1][1] <= ratio[1][2]
            /\ 0 < ratio[2][1] /\ ratio[2][1] <= ratio[2][2]

\* A resize that did not reallocate changed the recorded request.
C4_Witness ==
    /\ Len(resizeLog) = 2
    /\ PoolAllocated(ctx)
    /\ ~DidRealloc(resizeLog[2])
    /\ Req(resizeLog[2]) # Req(resizeLog[1])
    /\ Req(resizeLog[2]) = <<100, 300>>
    /\ Capacity(ctx) = <<1024, 512>>

-----------------------------------------------------------------------------
(* The constant setters (C7) *)

\* A step that stored nothing, marked nothing and uploaded nothing.
NothingChanged == ctx' = Start

\* What a setter step has to do: called with the stored value it changes
\* nothing; called with another value it sets the dirty flag when `marks`
\* holds and leaves the flag as it was otherwise.
SetterRule(step, stored, value, marks, flag, flagAfter) ==
    step =>
        IF value = stored THEN NothingChanged
        ELSE IF marks THEN flagAfter = TRUE
        ELSE flagAfter = flag

\* The rule for the six setters that do not look at the render target.
PlainSetterRules ==
    /\ \A m \in SetterMats :
            SetterRule(SetViewMatrix(m), getViewMatrix(ctx), m, TRUE,
                       ctx.m_cameraConstantsDirty,
                       ctx'.m_cameraConstantsDirty)
    /\ \A m \in SetterMats :
            SetterRule(SetProjectionMatrix(m), getProjectionMatrix(ctx), m,
                       TRUE, ctx.m_cameraConstantsDirty,
                       ctx'.m_cameraConstantsDirty)
    /\ \A r \in SetterRects :
            SetterRule(SetResizeLayerRect(r), ctx.m_resizeRect, r, TRUE,
                       ctx.m_resizeConstantsDirty,
                       ctx'.m_resizeConstantsDirty)
    /\ \A z \in SetterPxSizes :
            SetterRule(SetRgbNv16PxSize(z), ctx.m_rgbNv16PxSize, z, TRUE,
                       ctx.m_rgbNv16ConstantsDirty,
                       ctx'.m_rgbNv16ConstantsDirty)
    /\ \A k \in SetterColors :
            SetterRule(SetTexDecalModColor(k), ctx.m_texDecalModulate, k,
                       TRUE, ctx.m_texDecalConstantsDirty,
                       ctx'.m_texDecalConstantsDirty)
    /\ \A g \in SetterGammas :
            SetterRule(SetTexDecalEffects(g, Frac(0, 1), Frac(1, 1),
                                          Frac(1, 1)),
                       ctx.m_texDecalEffects,
                       <<StoredGamma(g), Frac(0, 1), Frac(1, 1), Frac(1, 1)>>,
                       TRUE, ctx.m_texDecalConstantsDirty,
                       ctx'.m_texDecalConstantsDirty)

\* The rule for setScreenViewMatrix and setScreenProjectionMatrix, which
\* mark the camera group when marks(current target) holds.
ScreenSetterRules(marks(_)) ==
    /\ \A m \in SetterMats :
            SetterRule(SetScreenViewMatrix(m), ctx.m_screenViewMat, m,
                       marks(ctx.m_currentTarget),
                       ctx.m_cameraConstantsDirty,
                       ctx'.m_cameraConstantsDirty)
    /\ \A m \in SetterMats :
            SetterRule(SetScreenProjectionMatrix(m), ctx.m_screenProjMat, m,
                       marks(ctx.m_currentTarget),
                       ctx.m_cameraConstantsDirty,
                       ctx'.m_cameraConstantsDirty)

AnyTarget(target) == TRUE

OnlyScreen(target) == target = GfxScreenTarget

\* C7 as stated: every one of the eight setters, called with a value that
\* differs from the stored one, sets the dirty flag of its group whatever
\* the current render target is; called with the stored value it changes
\* nothing.  (For setTexDecalEffects the value compared is the one that is
\* stored: the reciprocal of the clamped gamma.)
C7_Original ==
    [][PlainSetterRules /\ ScreenSetterRules(AnyTarget)]_vars

\* C7 as amended: the same, except that setScreenViewMatrix and
\* setScreenProjectionMatrix set the camera flag only when the screen is
\* the current render target; with another target current they store the
\* value and leave the flag as it was.
C7_Amended ==
    [][PlainSetterRules /\ ScreenSetterRules(OnlyScreen)]_vars

\* The screen view matrix was replaced while the user target was current,
\* and the camera constants are still clean and as initialize() left them.
C7_Witness ==
    /\ pc = "ready"
    /\ ctx.m_currentTarget = GfxUserTarget
    /\ ctx.m_screenViewMat = OrthoMat(2, 2)
    /\ ~ctx.m_cameraConstantsDirty
    /\ ctx.m_cameraConstants = <<IdentityMat, IdentityMat>>
    /\ ctx.m_userViewMat = IdentityMat /\ ctx.m_userProjMat = IdentityMat
    /\ ctx.m_screenProjMat = IdentityMat

-----------------------------------------------------------------------------
(* Lazy uploads (C8) *)

Groups == {"camera", "resize", "rgbNv16", "texDecal"}

\* The dirty flag of a constant group.
Dirty(c, group) ==
    CASE group = "camera" -> c.m_cameraConstantsDirty
      [] group = "resize" -> c.m_resizeConstantsDirty
      [] group = "rgbNv16" -> c.m_rgbNv16ConstantsDirty
      [] group = "texDecal" -> c.m_texDecalConstantsDirty

\* Event i of trace tr, which clears a flag, belongs to a drawBuffer() call
\* that goes on to draw at least one vertex with a shader that reads the
\* group (every shader reads the camera group): only uploads and other
\* clears separate it from the "draw" event of that call.
ClearedInsideDraw(tr, i) ==
    \E j \in (i + 1)..Len(tr) :
        /\ tr[j][1] = "draw"
        /\ tr[j][2].numVerts >= 1
        /\ tr[i][2] = "camera" \/ ShaderGroup(tr[j][2].shader) = tr[i][2]
        /\ \A k \in (i + 1)..(j - 1) : tr[k][1] \in {"upload", "clear"}

AllClearsInsideDraw(tr) ==
    \A i \in 1..Len(tr) : tr[i][1] = "clear" => ClearedInsideDraw(tr, i)

\* No setter uploads or clears a flag.
SettersAreLazy ==
    CacheSetter =>
        /\ ctx'.trace = <<>>
        /\ \A g \in Groups : Dirty(ctx, g) => Dirty(ctx', g)
        /\ ctx'.m_cameraConstants = ctx.m_cameraConstants
        /\ ctx'.m_resizeConstants = ctx.m_resizeConstants
        /\ ctx'.m_rgbNv16Constants = ctx.m_rgbNv16Constants
        /\ ctx'.m_texDecalConstants = ctx.m_texDecalConstants

\* A flag that was set before a step and is not set after it was cleared by
\* an update the step made.
FlagsFallByUpdate ==
    \A g \in Groups :
        (Dirty(ctx, g) /\ ~Dirty(ctx', g)) =>
            \E i \in 1..Len(ctx'.trace) : ctx'.trace[i] = <<"clear", g>>

\* C8 as stated: no setter uploads to a constant buffer or clears a dirty
\* flag, and a flag goes from true to false only inside a drawBuffer() call
\* that draws at least one vertex with a shader that reads the group.
C8_Original ==
    [][/\ SettersAreLazy
       /\ FlagsFallByUpdate
       /\ AllClearsInsideDraw(ctx'.trace)]_vars

\* C8 as amended: the same, except that initialize() also clears the flags:
\* it forces each flag and clears it before it creates the group's buffer.
C8_Amended ==
    [][/\ SettersAreLazy
       /\ FlagsFallByUpdate
       /\ pc # "init" => AllClearsInsideDraw(ctx'.trace)]_vars

\* A draw with the resize shader has just uploaded the rectangle a setter
\* stored earlier and cleared the flag of the resize group.
C8_Witness ==
    /\ pc = "ready"
    /\ ctx.m_resizeRect = CacheRect
    /\ ctx.m_resizeConstants = CacheRect
    /\ ~ctx.m_resizeConstantsDirty
    /\ \E i \in 1..Len(ctx.trace) :
            /\ ctx.trace[i] = <<"clear", "resize">>
            /\ ClearedInsideDraw(ctx.trace, i)


-----------------------------------------------------------------------------
(* C5 *)

\* The pool members returned by a sequence of getNext events.
Returned(log) == [i \in 1..Len(log) |-> log[i][2]]

\* No two neighbours of the sequence are equal.
Alternating(seq) == \A i \in 1..(Len(seq) - 1) : seq[i] # seq[i + 1]

\* C5: getNextScratchTarget() alternates strictly.  The members returned
\* by the calls of a step (the direct call, or the calls that
\* prepareTexture() and convertToBgrx() make), preceded by the member the
\* previous call returned, never hold the same member twice in a row; and a
\* step that makes no call (initialize, a resize, setRenderTarget, a draw, a
\* setter, ...) leaves the selector m_scratchNextTarget as it was.
C5_Alternates ==
    [][/\ Alternating(Returned(LastTwo(nextLog)) \o
                      Returned(GetNextEvents(ctx')))
       /\ GetNextEvents(ctx') = <<>> =>
              ctx'.m_scratchNextTarget = ctx.m_scratchNextTarget]_vars

\* Three calls at least were made, with a reallocation of the pool and a
\* change of the render target among the operations: the last two returned
\* the second member and then the first one again.
C5_Witness ==
    /\ pc = "ready"
    /\ Returned(nextLog) = <<GfxScratch2Target, GfxScratch1Target>>
    /\ nResize >= 2
    /\ ctx.m_currentTarget = GfxScreenTarget
    /\ ctx.m_scratchNextTarget = 1


-----------------------------------------------------------------------------
(* C6 *)

\* The local array of a constant group.
Local(c, group) ==
    CASE group = "camera" -> c.m_cameraConstantsLocal
      [] group = "resize" -> c.m_resizeConstantsLocal
      [] group = "rgbNv16" -> c.m_rgbNv16ConstantsLocal
      [] group = "texDecal" -> c.m_texDecalConstantsLocal

\* The content of the GPU buffer of a constant group.
Gpu(c, group) ==
    CASE group = "camera" -> c.m_cameraConstants
      [] group = "resize" -> c.m_resizeConstants
      [] group = "rgbNv16" -> c.m_rgbNv16Constants
      [] group = "texDecal" -> c.m_texDecalConstants

\* C6: in every state of an initialized context, reached through the
\* setters, setRenderTarget, setTexture, drawBuffer, prepareTexture and
\* convertToBgrx, a constant group whose dirty flag is false has a GPU
\* buffer whose content equals the local array of the group.
C6_GpuEqualsLocal ==
    pc # "init" =>
        \A group \in Groups :
            ~Dirty(ctx, group) => Gpu(ctx, group) = Local(ctx, group)


-----------------------------------------------------------------------------
(* C9, C10 *)

Axes == {1, 2}

\* The locals q belong to a call that takes the mipmap branch of the switch.
Mipmapping(q) == q.filter # "GfxPointFilter"

\* The crop-adjusted target size of the call, as the call computed it.
CropAdjusted(q) == q.invCropSize

\* The step returns from a call that took the mipmap branch.
MipmapReturn == pc = "prepare" /\ pc' = "ready" /\ Mipmapping(p)

\* C9 as stated: prepareTexture() with bilinear filtering stops with a
\* working size that on each axis is not smaller than the target size and
\* not larger than twice the crop-adjusted target size, and no working size
\* of the call is below the crop-adjusted target size on either axis.
C9_Original ==
    [][/\ MipmapReturn =>
              \A a \in Axes : /\ p.nextSize[a] >= p.size[a]
                              /\ p.nextSize[a] <= 2 * CropAdjusted(p)[a]
       /\ (pc' = "prepare" /\ Mipmapping(p')) =>
              \A a \in Axes : p'.nextSize[a] >= CropAdjusted(p')[a]]_vars

\* C9 as amended: the call stops with a working size that on each axis is
\* not larger than twice the crop-adjusted target size and not smaller than
\* the smaller of the source size and the crop-adjusted target size, hence
\* not smaller than the target size where the crop is not larger than the
\* source and the source is not smaller than the target; no working size
\* that a pass produced is below the crop-adjusted target size.
C9_Amended ==
    [][/\ MipmapReturn =>
              \A a \in Axes :
                  /\ p.nextSize[a] <= 2 * CropAdjusted(p)[a]
                  /\ p.nextSize[a] >=
                         Min(getSize(p.tex)[a], CropAdjusted(p)[a])
                  /\ (/\ 0 < p.cropRect[a + 2]
                      /\ p.cropRect[a + 2] <= getSize(p.tex)[a]
                      /\ getSize(p.tex)[a] >= p.size[a]) =>
                         p.nextSize[a] >= p.size[a]
       /\ (pc' = "prepare" /\ Mipmapping(p') /\ p'.passes >= 1) =>
              \A a \in Axes : p'.nextSize[a] >= CropAdjusted(p')[a]]_vars

\* The call that shrinks the 64x16 texture to 2x2 has returned: four passes
\* took the working size to 4x2, which is what the scratch target holds.
C9_Witness ==
    /\ pc = "ready"
    /\ result.tex.kind = "scratch"
    /\ ctx.m_scratchTargetSize = <<4, 2>>
    /\ result.botRight = getScratchTargetToTextureRatio(ctx)
    /\ Len(DrawEvents(ctx)) = 0

\* C10: the halving loop of prepareTexture() terminates: a call that has
\* entered the method returns.
C10_Terminates == (pc = "prepare") ~> (pc = "ready")

-----------------------------------------------------------------------------
(* C11 *)

\* The locals q belong to prepareTexture(1920x1080 texture, the whole
\* texture as crop, QSize(480, 270), GfxBilinearFilter).
C11_Call(q) ==
    /\ Mipmapping(q)
    /\ getSize(q.tex) = <<1920, 1080>>
    /\ q.cropRect = FullRect(q.tex)
    /\ q.size = <<480, 270>>

\* C11 as stated: prepareTexture(1920x1080 texture, full crop, 480x270,
\* bilinear) stops with a working size W with 480 <= W.w < 960 and
\* 270 <= W.h < 540.
C11_Original ==
    [][(MipmapReturn /\ C11_Call(p)) =>
           /\ 480 <= p.nextSize[1] /\ p.nextSize[1] < 960
           /\ 270 <= p.nextSize[2] /\ p.nextSize[2] < 540]_vars

\* C11 as amended: the call stops with a working size W with
\* 480 <= W.w <= 960 and 270 <= W.h <= 540.
C11_Amended ==
    [][(MipmapReturn /\ C11_Call(p)) =>
           /\ 480 <= p.nextSize[1] /\ p.nextSize[1] <= 960
           /\ 270 <= p.nextSize[2] /\ p.nextSize[2] <= 540]_vars

\* The call has returned after its one pass: the result is the scratch
\* texture of capacity 1024x1024 that holds the 960x540 mipmap.
C11_Witness ==
    /\ pc = "ready"
    /\ result.tex.kind = "scratch"
    /\ ctx.m_scratchTargetSize = <<960, 540>>
    /\ result.botRight = <<Frac(15, 16), Frac(135, 256)>>

-----------------------------------------------------------------------------
(* C12 *)

\* QRect::left() and QRect::right() + 1 on axis 1, top() and bottom() + 1 on
\* axis 2.
CropLow(q, a) == q.cropRect[a]

CropHigh(q, a) == q.cropRect[a] + q.cropRect[a + 2]

\* The crop rectangle of the call lies inside its source texture.
CropInside(q) ==
    \A a \in Axes : /\ 0 <= CropLow(q, a)
                    /\ CropLow(q, a) <= CropHigh(q, a)
                    /\ CropHigh(q, a) <= getSize(q.tex)[a]

\* C12: when prepareTexture() with bilinear filtering returns after at least
\* one pass, with base the ratio of the pool at the return, the top-left
\* point is (crop.left / source.w * base.x, crop.top / source.h * base.y),
\* the bottom-right point is ((crop.right + 1) / source.w * base.x,
\* (crop.bottom + 1) / source.h * base.y), the pixel size is their difference
\* divided by the target size, and for a crop inside the source
\* 0 <= topLeft <= bottomRight <= 1 on both axes.
C12_Coordinates ==
    [][(MipmapReturn /\ p.passes >= 1) =>
           LET base == getScratchTargetToTextureRatio(ctx')
           IN  \A a \in Axes :
                   /\ result'.topLeft[a] =
                          FracMul(Frac(CropLow(p, a), getSize(p.tex)[a]),
                                  base[a])
                   /\ result'.botRight[a] =
                          FracMul(Frac(CropHigh(p, a), getSize(p.tex)[a]),
                                  base[a])
                   /\ result'.pxSize[a] =
                          FracDivInt(FracSub(result'.botRight[a],
                                             result'.topLeft[a]),
                                     p.size[a])
                   /\ CropInside(p) =>
                          /\ FracLeq(Frac(0, 1), result'.topLeft[a])
                          /\ FracLeq(result'.topLeft[a], result'.botRight[a])
                          /\ FracLeq(result'.botRight[a], Frac(1, 1))]_vars

\* The call that shrinks the part (16, 4) 32x8 of the 64x16 texture to 4x2
\* has returned after two passes: the 16x4 mipmap lies in a corner of the
\* 512x512 scratch texture, and the part lies between a quarter and three
\* quarters of the mipmap on both axes.
C12_Witness ==
    /\ pc = "ready"
    /\ result.tex.kind = "scratch"
    /\ getScratchTargetToTextureRatio(ctx) = <<Frac(1, 32), Frac(1, 128)>>
    /\ result.topLeft = <<Frac(1, 128), Frac(1, 512)>>
    /\ result.botRight = <<Frac(3, 128), Frac(3, 512)>>
    /\ result.pxSize = <<Frac(1, 256), Frac(1, 512)>>

-----------------------------------------------------------------------------
(* C13 *)

\* The pool: requested size, the two textures and the selector.
Pool(c) ==
    <<c.m_scratchTargetSize, c.m_scratch1Texture, c.m_scratch2Texture,
      c.m_scratchNextTarget>>

\* The operation that left context c drew nothing and did not call the pool.
NoPoolCallNoDraw(c) ==
    /\ DrawEvents(c) = <<>>
    /\ ResizeEvents(c) = <<>>
    /\ GetNextEvents(c) = <<>>

\* C13: prepareTexture() with point filtering on a valid texture returns the
\* texture itself with topLeft = (crop.left / tex.w, crop.top / tex.h) and
\* bottomRight = ((crop.right + 1) / tex.w, (crop.bottom + 1) / tex.h), for
\* every crop and positive target size and whatever the ratio of the pool
\* is; it draws nothing, does not resize the pool and does not call
\* getNextScratchTarget().
C13_PointIsIdentity ==
    [][(\/ pc' = "prepare" /\ ~Mipmapping(p')
        \/ pc = "prepare" /\ ~Mipmapping(p))
           => /\ NoPoolCallNoDraw(ctx')
              /\ Pool(ctx') = Pool(ctx)
              /\ pc = "prepare" =>
                     /\ pc' = "ready"
                     /\ result'.tex = p.tex
                     /\ \A a \in Axes :
                            /\ result'.topLeft[a] =
                                   Frac(CropLow(p, a), getSize(p.tex)[a])
                            /\ result'.botRight[a] =
                                   Frac(CropHigh(p, a), getSize(p.tex)[a])]_vars

\* The call that takes the part (16, 4) 32x8 of the 64x16 texture with point
\* filtering has returned, while the pool holds a mipmap smaller than its
\* textures.
C13_Witness ==
    /\ pc = "ready"
    /\ result.tex = ExtTex(2, 64, 16, TRUE)
    /\ result.topLeft = <<Frac(1, 4), Frac(1, 4)>>
    /\ result.botRight = <<Frac(3, 4), Frac(3, 4)>>
    /\ getScratchTargetToTextureRatio(ctx) # <<Frac(1, 1), Frac(1, 1)>>

-----------------------------------------------------------------------------
(* C14 *)

\* The view and projection matrices of all targets.
Matrices(c) ==
    <<c.m_screenViewMat, c.m_screenProjMat, c.m_canvasViewMat,
      c.m_canvasProjMat, c.m_scratchViewMat, c.m_scratchProjMat,
      c.m_userViewMat, c.m_userProjMat>>

\* The dirty flags of all constant groups.
DirtyFlags(c) == [group \in Groups |-> Dirty(c, group)]

\* A call <<tex, cropRect, size, filter>> with a null source or a target
\* size that has a zero or negative axis.
DegenerateCall(call) ==
    call[1] = NullTex \/ call[3][1] <= 0 \/ call[3][2] <= 0

\* C14: prepareTexture() with a null source texture or a target size with a
\* zero or negative axis returns the source unchanged with top-left (0, 0),
\* bottom-right (1, 1) and pixel size (1, 1), and leaves the pool, the
\* current render target, all matrices and all dirty flags unchanged.
C14_DegenerateCall ==
    [][\A call \in PrepCalls :
           (DegenerateCall(call)
                /\ PrepareTexture(call[1], call[2], call[3], call[4])) =>
               /\ pc' = "ready"
               /\ result' = [tex |-> call[1],
                             topLeft |-> <<Frac(0, 1), Frac(0, 1)>>,
                             botRight |-> <<Frac(1, 1), Frac(1, 1)>>,
                             pxSize |-> <<Frac(1, 1), Frac(1, 1)>>]
               /\ Pool(ctx') = Pool(ctx)
               /\ ctx'.m_currentTarget = ctx.m_currentTarget
               /\ Matrices(ctx') = Matrices(ctx)
               /\ DirtyFlags(ctx') = DirtyFlags(ctx)
               /\ NoPoolCallNoDraw(ctx')]_vars

\* A call on the 8x8 texture with an invalid target size has returned, while
\* the pool holds a mipmap smaller than its textures.
C14_Witness ==
    /\ pc = "ready"
    /\ result = DegenerateResult(ExtTex(1, 8, 8, TRUE))
    /\ getScratchTargetToTextureRatio(ctx) # <<Frac(1, 1), Frac(1, 1)>>

-----------------------------------------------------------------------------
(* C15, C16, C17 *)

\* A call that leaves context b with outcome r (the context and the value
\* returned) rendered nothing, not even in part: it returned no texture, did
\* not call the pool, uploaded no constants, drew nothing and left the
\* render target as it was.
NoPartialRender(b, r) ==
    /\ r.ret = NullTex
    /\ NoPoolCallNoDraw(r.c)
    /\ UploadEvents(r.c) = <<>>
    /\ Pool(r.c) = Pool(b)
    /\ r.c.m_currentTarget = b.m_currentTarget
    /\ r.c.dev_renderTarget = b.dev_renderTarget

\* A plane set with a plane missing, or with a chroma plane whose width or
\* height is not half (rounded down, as plane sizes are) the width or height
\* of the luma plane.
BadPlaneSet(set) ==
    \/ \E i \in 1..3 : set[i] = NullTex
    \/ \E i \in 2..3 : \/ 2 * set[i].w \notin {set[1].w, set[1].w - 1}
                        \/ 2 * set[i].h \notin {set[1].h, set[1].h - 1}

\* Whether the updateDXBuffer() call of convertToBgrx() succeeds.
UploadOutcomes == {[AllOk EXCEPT !.okUpload = ok] : ok \in BOOLEAN}

C16_IyuvIsSwappedYv12 ==
    pc = "ready" =>
        \A set \in ThreePlaneSets, env \in UploadOutcomes :
            convertToBgrx(Start, "GfxIYUVFormat", set[1], set[2], set[3], env)
                = convertToBgrx(Start, "GfxYV12Format", set[1], set[3],
                                set[2], env)

\* A three-plane conversion has rendered with the luma plane in slot 0 and
\* the two 4x2 chroma planes in the order V, U in slots 1 and 2, as
\* convertToBgrx(IYUV, Y, U, V) and convertToBgrx(YV12, Y, V, U) bind them.
C16_Witness ==
    /\ pc = "ready"
    /\ result.tex.kind = "scratch"
    /\ Len(DrawEvents(ctx)) = 1
    /\ DrawEvents(ctx)[1][2].shader = "GfxYv12RgbShader"
    /\ DrawEvents(ctx)[1][2].textures =
           <<ConvLuma, ConvChromaV, ConvChromaU>>

\* The formats convertToBgrx() does not convert: RGB already, no format, a
\* value beyond the enumeration and NV12.
UnconvertedFormats ==
    {"GfxRGB24Format", "GfxRGB32Format", "GfxARGB32Format", "GfxNoFormat",
     "OutOfRangeFormat", "GfxNV12Format"}

\* C17: convertToBgrx() with an RGB format, the no-format value, a value out
\* of range or NV12 returns null at once and changes no state: no pool
\* resize, no getNextScratchTarget(), no constant upload, no draw, render
\* target and dirty flags unchanged.
C17_UnconvertedFormats ==
    pc = "ready" =>
        \A format \in UnconvertedFormats, set \in ThreePlaneSets,
           env \in UploadOutcomes :
            LET Unchanged(r) ==
                    /\ NoPartialRender(ctx, r)
                    /\ DirtyFlags(r.c) = DirtyFlags(ctx)
                    /\ r.c = Start
            IN  Unchanged(convertToBgrx(Start, format, set[1], set[2],
                                        set[3], env))

\* A call has returned null without any effect while the first scratch
\* target is the render target and the shader of an earlier packed
\* conversion is still bound.
C17_Witness ==
    /\ pc = "ready"
    /\ result.tex = NullTex
    /\ ctx.trace = <<>>
    /\ ctx.m_currentTarget = GfxScratch1Target
    /\ ctx.m_boundShader = "GfxUyvyRgbShader"

-----------------------------------------------------------------------------
(* C18 *)

\* The step is a convertToBgrx() call that uploaded its offsets.
ConvertUploaded ==
    /\ pc = "ready"
    /\ \E i \in 1..Len(UploadEvents(ctx')) :
           UploadEvents(ctx')[i] = <<"upload", "rgbNv16">>
    /\ Len(DrawEvents(ctx')) = 1

\* The horizontal sample offsets of the conversion shader `shader` for a
\* raster of `width` pixels: 4, 1/8, 8 and 1/16 of a pixel for the
\* three-plane shader, 2 pixels, 1 pixel, 0 and 0 for the packed ones.
SampleOffsets(shader, width) ==
    IF shader = "GfxYv12RgbShader"
    THEN <<Frac(4, width), Frac(1, 8 * width), Frac(8, width),
           Frac(1, 16 * width)>>
    ELSE <<Frac(2, width), Frac(1, width), Frac(0, 1), Frac(0, 1)>>

\* C18 as stated: the offsets convertToBgrx() uploads for its shader are
\* computed from the pixel width of the physical scratch texture it renders
\* into.
C18_Original ==
    [][ConvertUploaded =>
           ctx'.m_rgbNv16Constants =
               SampleOffsets(DrawEvents(ctx')[1][2].shader,
                             DrawEvents(ctx')[1][2].target.w)]_vars

\* C18 as amended: the offsets convertToBgrx() uploads for its shader are
\* computed from the width of the logical raster it requested from the pool,
\* not from the pixel width of the physical scratch texture.
C18_Amended ==
    [][ConvertUploaded =>
           /\ ResizeEvents(ctx')[1][2] = ctx'.m_scratchTargetSize
           /\ ctx'.m_rgbNv16Constants =
                  SampleOffsets(DrawEvents(ctx')[1][2].shader,
                                ctx'.m_scratchTargetSize[1])]_vars

\* The three-plane conversion of the 160x4 luma plane has rendered its
\* 640x4 raster into a scratch texture 1024 pixels wide with the offsets of
\* a width of 640.
C18_Witness ==
    /\ pc = "ready"
    /\ result.tex.kind = "scratch"
    /\ result.tex.w = 1024
    /\ ctx.m_scratchTargetSize = <<640, 4>>
    /\ Len(DrawEvents(ctx)) = 1
    /\ ctx.m_rgbNv16Constants = SampleOffsets("GfxYv12RgbShader", 640)

-----------------------------------------------------------------------------
(* C19 *)

\* The step made a resizeScratchTarget() call that changed the size of the
\* scratch textures.
CapacityChanged ==
    \E i \in 1..Len(ResizeEvents(ctx')) :
        CapBefore(ResizeEvents(ctx')[i]) # CapAfter(ResizeEvents(ctx')[i])

\* C19 as stated: whenever a resize of the pool changes the physical
\* capacity, whoever triggers it (convertToBgrx(), prepareTexture() or a
\* direct resizeScratchTarget() call), that resize sets the dirty flag of the
\* chroma-offset constant group (stated for the resizes made after
\* initialization).
C19_Original ==
    [][(pc # "init" /\ CapacityChanged) =>
           ctx'.m_rgbNv16ConstantsDirty]_vars

\* C19 as amended: a resize of the pool that changes the physical capacity
\* does not set the dirty flag of the chroma-offset constant group, whoever
\* triggers it: after a resize made by prepareTexture() or by a direct
\* resizeScratchTarget() call the flag is as it was; convertToBgrx() sets the
\* flag itself after its constant upload succeeded, whether or not its
\* resize changed the capacity, and leaves it as it was when the upload
\* failed.
C19_Amended ==
    [][/\ CapacityChanged =>
              ctx'.m_rgbNv16ConstantsDirty =
                  (ctx.m_rgbNv16ConstantsDirty \/ ConvertUploaded)
       /\ ConvertUploaded => ctx'.m_rgbNv16ConstantsDirty]_vars

\* A pass of prepareTexture() has made the pool reallocate, and the flag of
\* the chroma-offset group is not set.
C19_Witness ==
    /\ pc = "prepare"
    /\ Reallocated(ctx)
    /\ Len(DrawEvents(ctx)) = 1
    /\ ~ctx.m_rgbNv16ConstantsDirty

-----------------------------------------------------------------------------
(* C20 *)

\* C20: when the creation of either scratch texture fails during a
\* reallocating resize, both members of the pool are null afterwards, and
\* getTargetTexture() returns null for both scratch targets until a later
\* resize succeeds: at no time is one member null and the other not.
C20_BothOrNeither ==
    (getTargetTexture(ctx, GfxScratch1Target) = NullTex)
        <=> (getTargetTexture(ctx, GfxScratch2Target) = NullTex)

-----------------------------------------------------------------------------
(* C21 *)

\* The step selected a scratch target that has no texture.
SelectedMissingTarget ==
    \E i \in 1..Len(GetNextEvents(ctx')) :
        getTargetTexture(ctx', GetNextEvents(ctx')[i][2]) = NullTex

\* C21: when the scratch target selected for a pass has no texture,
\* prepareTexture() with bilinear filtering and convertToBgrx() abort that
\* stage: they issue no draw call for it, so that nothing is drawn into the
\* render target that was bound before, and convertToBgrx() returns null.
C21_NoDrawWithoutTarget ==
    [][SelectedMissingTarget =>
           /\ DrawEvents(ctx') = <<>>
           /\ pc' = "ready" => result'.tex = NullTex]_vars

-----------------------------------------------------------------------------
(* C22 *)

\* Gamma arguments: positive, zero and negative.
C22_Gammas ==
    {Frac(1, 2), Frac(1, 1), Frac(2, 1), Frac(1, 100), Frac(0, 1),
     Frac(-1, 1), Frac(-1, 100)}

\* Arguments <<brightness, contrast, saturation>>.
C22_Levels ==
    {<<Frac(0, 1), Frac(1, 1), Frac(1, 1)>>,
     <<Frac(-1, 2), Frac(3, 2), Frac(0, 1)>>,
     <<Frac(1, 4), Frac(0, 1), Frac(2, 1)>>}

\* C22: setTexDecalEffects(g, b, c, s) followed by getTexDecalEffects()
\* returns (1 / g, b, c, s) for every g > 0 and (100, b, c, s) for every
\* g <= 0; brightness, contrast and saturation are stored unchanged.
C22_EffectsReadBack ==
    pc = "ready" =>
        \A g \in C22_Gammas, bcs \in C22_Levels :
            getTexDecalEffects(
                    setTexDecalEffects(ctx, g, bcs[1], bcs[2], bcs[3])) =
                <<IF g[1] > 0 THEN <<g[2], g[1]>> ELSE <<100, 1>>,
                  bcs[1], bcs[2], bcs[3]>>

\* setTexDecalEffects() was called with a gamma that is not positive: the
\* context holds the gamma 100.
C22_Witness ==
    /\ pc = "ready"
    /\ getTexDecalEffects(ctx)[1] = <<100, 1>>
    /\ ctx.m_texDecalConstantsDirty

-----------------------------------------------------------------------------
(* C23 *)

\* C23: after any sequence of scrollBy() calls with deltas of any magnitude
\* and resetScrolling() calls, both coordinates of the stored scroll offset
\* are in [0, 1).
C23_OffsetInRange ==
    \A i \in 1..2 :
        /\ decal.m_scrollOffset[i][2] > 0
        /\ 0 <= decal.m_scrollOffset[i][1]
        /\ decal.m_scrollOffset[i][1] < decal.m_scrollOffset[i][2]

-----------------------------------------------------------------------------
(* C24 *)

NegPoint(delta) ==
    <<<<-delta[1][1], delta[1][2]>>, <<-delta[2][1], delta[2][2]>>>>

\* What getVertBuf() and getTopology() give for decal d.
Geometry(d) ==
    [offset |-> d.m_scrollOffset, topology |-> getTopology(d),
     verts |-> getVertBuf(d).m_vertBuf]

\* C24: from any decal state, a never scrolled decal included, scrollBy(delta)
\* followed by scrollBy(-delta) leaves the scroll offset and the geometry of
\* getVertBuf()/getTopology() (vertices, vertex count, topology) as before.
C24_ScrollRoundTrip ==
    pc = "ready" =>
        \A delta \in DecalDeltas, ub \in UbOutcomes :
            Geometry(scrollBy(scrollBy(decal, delta, ub, ub),
                              NegPoint(delta), ub, ub)) = Geometry(decal)

-----------------------------------------------------------------------------
(* C30 *)

\* C30: after resetScrolling() the decal is in the non-scrolling state,
\* whatever scrollBy() calls preceded: the offset is (0, 0), getTopology()
\* is the triangle strip and getVertBuf() holds the 4 vertices of the
\* static decal.
C30_ResetIsStatic ==
    pc = "ready" =>
        LET d == resetScrolling(decal)
        IN  /\ d.m_scrollOffset = NullPoint
            /\ getTopology(d) = GfxTriangleStripTopology
            /\ getVertBuf(d).m_vertBuf = createTexDecalStrip(d)

-----------------------------------------------------------------------------
(* C25 *)

CopyEvents(c) == SelectSeq(c.trace, LAMBDA e : e[1] = "copy")

\* The copy the claim calls invalid: a missing or mapped texture, a
\* negative destination, a region that does not fit the destination, or a
\* source rectangle not wholly inside the source texture.
BadCopy(dst, src, dstPos, srcRect) ==
    \/ dst = NullTex
    \/ src = NullTex
    \/ dst.mapped
    \/ src.mapped
    \/ dstPos[1] < 0
    \/ dstPos[2] < 0
    \/ dstPos[1] + srcRect[3] > dst.w
    \/ dstPos[2] + srcRect[4] > dst.h
    \/ ~ /\ 0 <= srcRect[1]
         /\ 0 <= srcRect[2]
         /\ srcRect[1] + srcRect[3] - 1 < src.w
         /\ srcRect[2] + srcRect[4] - 1 < src.h

\* C25: copyTextureData() returns false and queues no copy for every
\* invalid copy; it returns true only when the region is in bounds of both
\* textures.
C25_RejectsOutOfBounds ==
    pc = "ready" =>
        \A dst, src \in CopyTextures, dstPos \in CopyPositions,
           srcRect \in CopyRects :
            BadCopy(dst, src, dstPos, srcRect) =>
                /\ ~copyTextureData(Start, dst, src, dstPos, srcRect).ret
                /\ CopyEvents(copyTextureData(Start, dst, src, dstPos,
                                              srcRect).c) = <<>>

-----------------------------------------------------------------------------
(* C26 *)

\* The textures bound as shader inputs at a draw call.
InputsOf(draw) ==
    {draw.textures[j] : j \in 1..Len(draw.textures)} \ {NullTex}

\* C26: no draw call of prepareTexture(..., GfxBilinearFilter) or
\* convertToBgrx() reads the texture it renders into, when the source of
\* each call is a texture of the application or the texture the call before
\* returned.
C26_NoFeedback ==
    \A i \in 1..Len(DrawEvents(ctx)) :
        DrawEvents(ctx)[i][2].target \notin InputsOf(DrawEvents(ctx)[i][2])

-----------------------------------------------------------------------------
(* C27 *)

\* C27: no draw call of prepareTexture(..., GfxBilinearFilter) reads a
\* texture that a reallocation of the pool has destroyed, whether the source
\* is a texture of the application or a pool texture returned by the call
\* before.
C27_NoDestroyedInput ==
    \A i \in 1..Len(DrawEvents(ctx)) :
        \A tex \in InputsOf(DrawEvents(ctx)[i][2]) : tex.kind # "freed"

-----------------------------------------------------------------------------
(* C28 *)

\* C28: at every draw call of at least one vertex the camera constant
\* buffer of the device holds the view and projection matrices of the
\* current render target.
C28_CameraOfCurrentTarget ==
    \A i \in 1..Len(DrawEvents(ctx)) :
        DrawEvents(ctx)[i][2].numVerts >= 1 =>
            DrawEvents(ctx)[i][2].camera = DrawEvents(ctx)[i][2].matrices

-----------------------------------------------------------------------------
(* C29 *)

\* The render-target state of the caller: the current render target and its
\* view and projection matrices.
CallerState(c) ==
    <<c.m_currentTarget, getViewMatrix(c), getProjectionMatrix(c)>>

\* C29: convertToBgrx() leaves the current render target and the view and
\* projection matrices of that target as they were at entry, on every
\* return path (a conversion that succeeds, a missing plane, an upload that
\* fails) and for every current target, the scratch targets included; the
\* same holds for prepareTexture(), which saves and restores in the same way.
C29_CallerStateRestored ==
    pc = "ready" =>
        \A planeA \in {ConvWideChroma, NullTex}, env \in UploadOutcomes :
            CallerState(convertToBgrx(Start, "GfxUYVYFormat", planeA,
                                      NullTex, NullTex, env).c)
                = CallerState(ctx)

=============================================================================
